---- MODULE Spec2Model ----
(***************************************************************************)
(* State-machine model of the cashbook ledger application (src/app):       *)
(* the relational store, the upload folder, the login sessions and the     *)
(* request handlers of src/app/routes.py, each handler one atomic action;  *)
(* where the order of the statements inside a handler or the interleaving  *)
(* of two requests matters (logout, register, edit_user, add_transaction,  *)
(* edit_transaction), the handler is two actions and the request is in     *)
(* flight between them.                                                    *)
(*                                                                         *)
(* Conventions                                                             *)
(*   - amounts are integers, in cents (Numeric(12, 2));                    *)
(*   - a date is a day number counted from day 1 of the first month, every *)
(*     month having DaysPerMonth days;                                     *)
(*   - a text is a sequence of one-character strings, NullText is SQL NULL;*)
(*   - a row id of 0 stands for NULL / "no row";                           *)
(*   - a new row gets id max(existing ids) + 1, the rowid rule of the      *)
(*     SQLite store that src/app/__init__.py configures by default;        *)
(*   - the outcome of a database commit, of an audit insert and of a file  *)
(*     removal is decided by the environment: each handler takes it as an  *)
(*     input.                                                              *)
(*                                                                         *)
(* Specifications                                                          *)
(*   Spec        the ledger: transactions, receipts and stored files       *)
(*   SpecPerm    the permission evaluator                                  *)
(*   SpecList    the transaction list and its filters                      *)
(*   SpecLimit   spending limits, the dashboard and the spending check     *)
(*   SpecReport  the PDF and Excel reports                                 *)
(*   SpecAccess  every operation that changes stored data, by every role   *)
(*   SpecUpload  receipt uploads of allowed and other extensions           *)
(*   SpecAudit   the audit log: login, logout and the transaction handlers *)
(*   SpecDeactivation  delete_user on accounts that own rows               *)
(*   SpecAccounts      register, edit_user and profile, run concurrently   *)
(*   SpecBackup  the backup beside the handlers that fill the store        *)
(*   SpecFields  transaction forms with valid and invalid fields           *)
(*   SpecSeed    create_app run again and again on a store that changes    *)
(*   SpecOwner   transactions and receipts of two owners                   *)
(*   SpecLogin   login of accounts that are deactivated and reactivated    *)
(*   SpecInput   the reports of requesters without manage_users            *)
(*   SpecOverlap       add_transaction and edit_transaction, overlapping   *)
(***************************************************************************)
EXTENDS Integers, Sequences, FiniteSets, TLC

VARIABLES
    roles,            \* table roles: sequence of role names, row i has id i
    users,            \* table users: sequence of rows, row i has id i
    sessions,         \* ids of the users holding a login session
    categories,       \* table categories: sequence of rows
    tags,             \* table tags: sequence of tag names
    transactions,     \* table transactions (+ transaction_tags): id -> row
    receipts,         \* table receipts: id -> row
    files,            \* names of the files in UPLOAD_FOLDER
    spending_limits,  \* table spending_limits: sequence of rows
    audit_logs,       \* table audit_logs: sequence of rows
    today,            \* date.today()
    resp,             \* the response to the last request handled
    probe,            \* the last direct has_permission evaluation
    inflight          \* the requests that have started and not yet ended

store == <<roles, users, sessions, categories, tags, transactions, receipts,
           files, spending_limits, audit_logs, today>>
vars == <<roles, users, sessions, categories, tags, transactions, receipts,
          files, spending_limits, audit_logs, today, resp, probe, inflight>>

-----------------------------------------------------------------------------
(* Bounds of the model *)

MaxTx == 2          \* the largest transaction id
MaxFiles == 2       \* the largest stored file name
MaxLimits == 2      \* spending_limits rows
MaxCategories == 10 \* categories rows, the nine seeded ones included
MaxUsers == 4       \* users rows
MaxDay == 4         \* the last day date.today() reaches
MaxAudit == 2       \* audit_logs rows
DaysPerMonth == 2   \* days of a month of the model's calendar

(* Program constants *)

per_page == 20

-----------------------------------------------------------------------------
(* Generic helpers *)

NullText == <<"NULL">>
NoDate == 0
NoAmount == -1
NoFile == <<>>

SeqToSet(s) == {s[i] : i \in DOMAIN s}

MaxOf(S) == CHOOSE x \in S : \A y \in S : y <= x

NextId(S) == IF S = {} THEN 1 ELSE MaxOf(S) + 1

RECURSIVE SumOver(_, _)
SumOver(f, S) ==
    IF S = {} THEN 0
    ELSE LET x == CHOOSE y \in S : TRUE IN f[x] + SumOver(f, S \ {x})

Lower(c) ==
    CASE c = "A" -> "a"
      [] c = "B" -> "b"
      [] c = "PDF" -> "pdf"
      [] c = "JPG" -> "jpg"
      [] c = "Gif" -> "gif"
      [] OTHER -> c

LowerText(s) == [i \in DOMAIN s |-> Lower(s[i])]

-----------------------------------------------------------------------------
(* Model layer: src/app/models.py *)

role_permissions_viewer_writes(name) ==
    CASE name = "Admin" -> {"create", "read", "update", "delete",
                            "manage_users", "reports", "backup"}
      [] name = "Manager" -> {"create", "read", "update", "delete", "reports"}
      [] name = "Viewer" -> {"create", "read", "update", "delete", "reports"}
      [] OTHER -> {}

role_permissions_default_viewer(name) ==
    CASE name = "Admin" -> {"create", "read", "update", "delete",
                            "manage_users", "reports", "backup"}
      [] name = "Manager" -> {"create", "read", "update", "delete", "reports"}
      [] OTHER -> {"read", "reports"}

(* The dictionary of User.has_permission, with dict.get(name, []) *)
role_permissions(name) ==
    CASE name = "Admin" -> {"create", "read", "update", "delete",
                            "manage_users", "reports", "backup"}
      [] name = "Manager" -> {"create", "read", "update", "delete", "reports"}
      [] name = "Viewer" -> {"read", "reports"}
      [] OTHER -> {}

(* user.role.name of the user row with id u *)
RoleOf(u) == roles[users[u].role_id]

(* User.has_permission for the user row with id u *)
has_permission(u, permission) == permission \in role_permissions(RoleOf(u))

-----------------------------------------------------------------------------
(* Helpers: src/app/utils.py *)

(* A file name is the sequence of its parts between dots: "scan.PDF" is   *)
(* <<"scan", "PDF">>; rsplit('.', 1)[1] is the last part.                  *)
ALLOWED_EXTENSIONS == {"pdf", "png", "jpg", "jpeg", "gif"}

allowed_file(filename) ==
    /\ Len(filename) >= 2
    /\ Lower(filename[Len(filename)]) \in ALLOWED_EXTENSIONS

(* uuid4: a name no file and no receipt row carries *)
FreshFileName == NextId(files \cup {receipts[r].filename : r \in DOMAIN receipts})

(* save_uploaded_file: the stored name, 0 for None *)
save_uploaded_file(file) ==
    IF file # NoFile /\ allowed_file(file) THEN FreshFileName ELSE 0

delete_file_raising(fs, filename, remove_ok) ==
    IF filename \in fs /\ remove_ok
    THEN [fs |-> fs \ {filename}, result |-> TRUE, raised |-> FALSE]
    ELSE [fs |-> fs, result |-> FALSE, raised |-> filename \in fs]

(* delete_file on the folder content fs; remove_ok is whether os.remove    *)
(* succeeds. The exception is caught and logged: it is never raised.       *)
delete_file(fs, filename, remove_ok) ==
    IF filename \in fs /\ remove_ok
    THEN [fs |-> fs \ {filename}, result |-> TRUE, raised |-> FALSE]
    ELSE [fs |-> fs, result |-> FALSE, raised |-> FALSE]

(* str.strip on one piece of a comma-separated tag string *)
Strip(piece) ==
    CASE piece = " a" -> "a"
      [] piece = "a " -> "a"
      [] piece = " b" -> "b"
      [] piece = " " -> ""
      [] OTHER -> piece

(* A tag string is the sequence of its pieces between commas: "a, b" is    *)
(* <<"a", " b">>, the empty string is <<"">>, a missing field is <<>>.     *)
Truthy(tag_string) == tag_string # <<>> /\ tag_string # <<"">>

parse_tags(tag_string) ==
    IF ~Truthy(tag_string) THEN <<>>
    ELSE SelectSeq([i \in DOMAIN tag_string |-> Strip(tag_string[i])],
                   LAMBDA t : t # "")

log_audit_action_raising(audit_ok, user_id, action, table_name, record_id) ==
    [logs |-> IF audit_ok
              THEN Append(audit_logs, [user_id |-> user_id, action |-> action,
                                       table_name |-> table_name,
                                       record_id |-> record_id])
              ELSE audit_logs,
     raised |-> ~audit_ok,
     logged |-> <<>>]

log_audit_action_replacing(audit_ok, user_id, action, table_name, record_id) ==
    [logs |-> IF audit_ok
              THEN <<[user_id |-> user_id, action |-> action,
                      table_name |-> table_name, record_id |-> record_id]>>
              ELSE audit_logs,
     raised |-> FALSE,
     logged |-> IF audit_ok THEN <<>> ELSE <<"Error logging audit action">>]

(* log_audit_action: the row is added and committed (audit_ok), or the     *)
(* insert fails, and the exception is caught and written to the            *)
(* application log. logs is the table afterwards, raised whether an        *)
(* exception leaves the function, logged what went to the application log. *)
log_audit_action(audit_ok, user_id, action, table_name, record_id) ==
    [logs |-> IF audit_ok
              THEN Append(audit_logs, [user_id |-> user_id, action |-> action,
                                       table_name |-> table_name,
                                       record_id |-> record_id])
              ELSE audit_logs,
     raised |-> FALSE,
     logged |-> IF audit_ok THEN <<>> ELSE <<"Error logging audit action">>]

-----------------------------------------------------------------------------
(* Forms: src/app/forms.py *)

FileAllowed(filename) ==
    /\ Len(filename) >= 2
    /\ Lower(filename[Len(filename)]) \in {"pdf", "png", "jpg", "jpeg"}

TransactionForm_validate_amount_unchecked(form) ==
    /\ form.type \in {"income", "expense"}
    /\ form.description # NullText /\ form.description # <<>>
    /\ form.transaction_date # NoDate
    /\ form.category_id # 0 /\ form.category_id \in DOMAIN categories
    /\ (form.receipts = NoFile \/ FileAllowed(form.receipts))

(* TransactionForm.validate: DataRequired refuses 0 and the empty text,    *)
(* NumberRange(min=0.01) anything below one cent, the SelectFields any     *)
(* value that is not a choice, FileAllowed an upload of another extension. *)
TransactionForm_validate(form) ==
    /\ form.type \in {"income", "expense"}
    /\ form.amount # NoAmount /\ form.amount # 0 /\ form.amount >= 1
    /\ form.description # NullText /\ form.description # <<>>
    /\ form.transaction_date # NoDate
    /\ form.category_id # 0 /\ form.category_id \in DOMAIN categories
    /\ (form.receipts = NoFile \/ FileAllowed(form.receipts))

-----------------------------------------------------------------------------
(* Responses. body is what the handler computed for the page: the rows of *)
(* a list, the alerts of the dashboard, the summary of a report, the       *)
(* values returned by the delete_file calls of a deletion; logged is what  *)
(* the request wrote to the application log.                               *)

Response(op, u, target, status, error, body) ==
    [op |-> op, user |-> u, target |-> target, status |-> status,
     error |-> error, body |-> body, logged |-> <<>>]

(* The end of a handler whose changes are committed: the call of           *)
(* log_audit_action, then the response. An exception leaving               *)
(* log_audit_action would end the request with status 500 instead.         *)
Audited(audit, response) ==
    /\ Len(audit.logs) <= MaxAudit
    /\ audit_logs' = audit.logs
    /\ resp' = IF audit.raised
               THEN [response EXCEPT !.status = 500, !.error = "Exception"]
               ELSE [response EXCEPT !.logged = audit.logged]

(* The request ends without touching the store or the upload folder *)
Reply(op, u, target, status) ==
    /\ resp' = Response(op, u, target, status, "", <<>>)
    /\ UNCHANGED <<store, probe, inflight>>

(* db.session.commit raised: the 500 handler rolls the session back *)
RolledBack(op, u, target) ==
    /\ resp' = Response(op, u, target, 500, "SQLAlchemyError", <<>>)
    /\ UNCHANGED <<roles, users, sessions, categories, tags, transactions,
                   receipts, spending_limits, audit_logs, today, probe, inflight>>

-----------------------------------------------------------------------------
(* Transactions: src/app/routes.py *)

RECURSIVE find_or_create_tags(_, _)
(* The loop "Tag.query.filter_by(name=...).first() or Tag(name=...)": the  *)
(* query autoflushes, so a name added earlier in the loop is found.        *)
find_or_create_tags(tbl, tag_names) ==
    IF tag_names = <<>> THEN tbl
    ELSE find_or_create_tags(
             IF Head(tag_names) \in SeqToSet(tbl) THEN tbl
             ELSE Append(tbl, Head(tag_names)),
             Tail(tag_names))

TagId(tbl, name) == CHOOSE i \in DOMAIN tbl : tbl[i] = name

ReceiptsOf(id) == {r \in DOMAIN receipts : receipts[r].transaction_id = id}

WithRow(table, id, row) ==
    [i \in DOMAIN table \cup {id} |-> IF i = id THEN row ELSE table[i]]

WithoutRows(table, ids) == [i \in DOMAIN table \ ids |-> table[i]]

add_transaction(u, form, commit_ok, audit_ok) ==
    /\ u \in sessions
    /\ IF ~has_permission(u, "create")
       THEN Reply("add_transaction", u, 0, 403)
       ELSE IF ~TransactionForm_validate(form)
       THEN Reply("add_transaction", u, 0, 200)
       ELSE
         LET id == NextId(DOMAIN transactions)
             tag_names == parse_tags(form.tags)
             tbl == find_or_create_tags(tags, tag_names)
             filename == save_uploaded_file(form.receipts)
             row == [type |-> form.type,
                     amount |-> form.amount,
                     description |-> form.description,
                     notes |-> form.notes,
                     party |-> form.party,
                     transaction_date |-> form.transaction_date,
                     created_at |-> id,
                     user_id |-> u,
                     category_id |-> form.category_id,
                     tags |-> {TagId(tbl, n) : n \in SeqToSet(tag_names)}]
         IN  /\ id <= MaxTx
             /\ filename <= MaxFiles
             /\ files' = IF filename # 0 THEN files \cup {filename} ELSE files
             /\ IF commit_ok
                THEN /\ transactions' = WithRow(transactions, id, row)
                     /\ tags' = tbl
                     /\ receipts' =
                          IF filename # 0
                          THEN WithRow(receipts, NextId(DOMAIN receipts),
                                       [filename |-> filename,
                                        original_filename |-> form.receipts,
                                        transaction_id |-> id])
                          ELSE receipts
                     /\ Audited(log_audit_action(audit_ok, u, "create_transaction",
                                         "transactions", id),
                                Response("add_transaction", u, id, 302, "", <<>>))
                     /\ UNCHANGED <<roles, users, sessions, categories,
                                    spending_limits, today, probe, inflight>>
                ELSE RolledBack("add_transaction", u, 0)

edit_transaction_taking_ownership(u, id, form, commit_ok, audit_ok) ==
    /\ u \in sessions
    /\ IF id \notin DOMAIN transactions
       THEN Reply("edit_transaction", u, id, 404)
       ELSE IF ~has_permission(u, "update")
       THEN Reply("edit_transaction", u, id, 403)
       ELSE IF ~has_permission(u, "manage_users") /\ transactions[id].user_id # u
       THEN Reply("edit_transaction", u, id, 403)
       ELSE IF ~TransactionForm_validate(form)
       THEN Reply("edit_transaction", u, id, 200)
       ELSE
         LET tag_names == parse_tags(form.tags)
             tbl == find_or_create_tags(tags, tag_names)
             filename == save_uploaded_file(form.receipts)
             row == [transactions[id] EXCEPT
                       !.type = form.type,
                       !.amount = form.amount,
                       !.description = form.description,
                       !.notes = form.notes,
                       !.party = form.party,
                       !.transaction_date = form.transaction_date,
                       !.category_id = form.category_id,
                       !.user_id = u,
                       !.tags = {TagId(tbl, n) : n \in SeqToSet(tag_names)}]
         IN  /\ filename <= MaxFiles
             /\ files' = IF filename # 0 THEN files \cup {filename} ELSE files
             /\ IF commit_ok
                THEN /\ transactions' = WithRow(transactions, id, row)
                     /\ tags' = tbl
                     /\ receipts' =
                          IF filename # 0
                          THEN WithRow(receipts, NextId(DOMAIN receipts),
                                       [filename |-> filename,
                                        original_filename |-> form.receipts,
                                        transaction_id |-> id])
                          ELSE receipts
                     /\ Audited(log_audit_action(audit_ok, u, "update_transaction",
                                         "transactions", id),
                                Response("edit_transaction", u, id, 302, "", <<>>))
                     /\ UNCHANGED <<roles, users, sessions, categories,
                                    spending_limits, today, probe, inflight>>
                ELSE RolledBack("edit_transaction", u, id)

edit_transaction(u, id, form, commit_ok, audit_ok) ==
    /\ u \in sessions
    /\ IF id \notin DOMAIN transactions
       THEN Reply("edit_transaction", u, id, 404)
       ELSE IF ~has_permission(u, "update")
       THEN Reply("edit_transaction", u, id, 403)
       ELSE IF ~has_permission(u, "manage_users") /\ transactions[id].user_id # u
       THEN Reply("edit_transaction", u, id, 403)
       ELSE IF ~TransactionForm_validate(form)
       THEN Reply("edit_transaction", u, id, 200)
       ELSE
         LET tag_names == parse_tags(form.tags)
             tbl == find_or_create_tags(tags, tag_names)
             filename == save_uploaded_file(form.receipts)
             row == [transactions[id] EXCEPT
                       !.type = form.type,
                       !.amount = form.amount,
                       !.description = form.description,
                       !.notes = form.notes,
                       !.party = form.party,
                       !.transaction_date = form.transaction_date,
                       !.category_id = form.category_id,
                       !.tags = {TagId(tbl, n) : n \in SeqToSet(tag_names)}]
         IN  /\ filename <= MaxFiles
             /\ files' = IF filename # 0 THEN files \cup {filename} ELSE files
             /\ IF commit_ok
                THEN /\ transactions' = WithRow(transactions, id, row)
                     /\ tags' = tbl
                     /\ receipts' =
                          IF filename # 0
                          THEN WithRow(receipts, NextId(DOMAIN receipts),
                                       [filename |-> filename,
                                        original_filename |-> form.receipts,
                                        transaction_id |-> id])
                          ELSE receipts
                     /\ Audited(log_audit_action(audit_ok, u, "update_transaction",
                                         "transactions", id),
                                Response("edit_transaction", u, id, 302, "", <<>>))
                     /\ UNCHANGED <<roles, users, sessions, categories,
                                    spending_limits, today, probe, inflight>>
                ELSE RolledBack("edit_transaction", u, id)

RECURSIVE SortedSeq(_)
(* The ids of S in ascending order *)
SortedSeq(S) ==
    IF S = {} THEN <<>>
    ELSE LET m == CHOOSE x \in S : \A y \in S : x <= y
         IN <<m>> \o SortedSeq(S \ {m})

RECURSIVE delete_files(_, _, _)
(* "for receipt in transaction.receipts: delete_file(receipt.filename)":   *)
(* failing is the set of names whose os.remove fails, results the values   *)
(* the calls return.                                                       *)
delete_files(fs, names, failing) ==
    IF names = <<>> THEN [fs |-> fs, raised |-> FALSE, results |-> <<>>]
    ELSE LET r == delete_file(fs, Head(names), Head(names) \notin failing)
             rest == delete_files(r.fs, Tail(names), failing)
         IN IF r.raised
            THEN [fs |-> r.fs, raised |-> TRUE, results |-> <<>>]
            ELSE [fs |-> rest.fs, raised |-> rest.raised,
                  results |-> <<r.result>> \o rest.results]

(* An exception other than a failed commit ends the request with status    *)
(* 500; the 500 handler rolls the session back.                            *)
Raised(op, u, target, error, fs) ==
    /\ resp' = Response(op, u, target, 500, error, <<>>)
    /\ files' = fs
    /\ UNCHANGED <<roles, users, sessions, categories, tags, transactions,
                   receipts, spending_limits, audit_logs, today, probe, inflight>>

delete_transaction_with_its_tags(u, id, failing, commit_ok, audit_ok) ==
    /\ u \in sessions
    /\ IF id \notin DOMAIN transactions
       THEN Reply("delete_transaction", u, id, 404)
       ELSE IF ~has_permission(u, "delete")
       THEN Reply("delete_transaction", u, id, 403)
       ELSE IF ~has_permission(u, "manage_users") /\ transactions[id].user_id # u
       THEN Reply("delete_transaction", u, id, 403)
       ELSE
         LET rs == SortedSeq(ReceiptsOf(id))
             names == [i \in DOMAIN rs |-> receipts[rs[i]].filename]
             removed == delete_files(files, names, failing)
         IN  IF removed.raised
             THEN Raised("delete_transaction", u, id, "OSError", removed.fs)
             ELSE
               /\ files' = removed.fs
               /\ IF commit_ok
                  THEN /\ transactions' =
                            [i \in DOMAIN transactions \ {id} |->
                               [transactions[i] EXCEPT
                                  !.tags = @ \ transactions[id].tags]]
                       /\ receipts' = WithoutRows(receipts, ReceiptsOf(id))
                       /\ Audited(log_audit_action(audit_ok, u, "delete_transaction",
                                           "transactions", id),
                                  Response("delete_transaction", u, id, 302,
                                           "", removed.results))
                       /\ UNCHANGED <<roles, users, sessions, categories, tags,
                                      spending_limits, today, probe, inflight>>
                  ELSE RolledBack("delete_transaction", u, id)

delete_transaction(u, id, failing, commit_ok, audit_ok) ==
    /\ u \in sessions
    /\ IF id \notin DOMAIN transactions
       THEN Reply("delete_transaction", u, id, 404)
       ELSE IF ~has_permission(u, "delete")
       THEN Reply("delete_transaction", u, id, 403)
       ELSE IF ~has_permission(u, "manage_users") /\ transactions[id].user_id # u
       THEN Reply("delete_transaction", u, id, 403)
       ELSE
         LET rs == SortedSeq(ReceiptsOf(id))
             names == [i \in DOMAIN rs |-> receipts[rs[i]].filename]
             removed == delete_files(files, names, failing)
         IN  IF removed.raised
             THEN Raised("delete_transaction", u, id, "OSError", removed.fs)
             ELSE
               /\ files' = removed.fs
               /\ IF commit_ok
                  THEN /\ transactions' = WithoutRows(transactions, {id})
                       /\ receipts' = WithoutRows(receipts, ReceiptsOf(id))
                       /\ Audited(log_audit_action(audit_ok, u, "delete_transaction",
                                           "transactions", id),
                                  Response("delete_transaction", u, id, 302,
                                           "", removed.results))
                       /\ UNCHANGED <<roles, users, sessions, categories, tags,
                                      spending_limits, today, probe, inflight>>
                  ELSE RolledBack("delete_transaction", u, id)

delete_receipt_any_owner(u, receipt_id, remove_ok, commit_ok, audit_ok) ==
    /\ u \in sessions
    /\ IF receipt_id \notin DOMAIN receipts
       THEN Reply("delete_receipt", u, receipt_id, 404)
       ELSE IF ~has_permission(u, "update")
       THEN Reply("delete_receipt", u, receipt_id, 403)
       ELSE
         LET removed == delete_file(files, receipts[receipt_id].filename,
                                    remove_ok)
         IN  IF removed.raised
             THEN Raised("delete_receipt", u, receipt_id, "OSError", removed.fs)
             ELSE
               /\ files' = removed.fs
               /\ IF commit_ok
                  THEN /\ receipts' = WithoutRows(receipts, {receipt_id})
                       /\ Audited(log_audit_action(audit_ok, u, "delete_receipt",
                                           "receipts", receipt_id),
                                  Response("delete_receipt", u, receipt_id, 302,
                                           "", <<removed.result>>))
                       /\ UNCHANGED <<roles, users, sessions, categories, tags,
                                      transactions, spending_limits, today,
                                      probe, inflight>>
                  ELSE RolledBack("delete_receipt", u, receipt_id)

delete_receipt(u, receipt_id, remove_ok, commit_ok, audit_ok) ==
    /\ u \in sessions
    /\ IF receipt_id \notin DOMAIN receipts
       THEN Reply("delete_receipt", u, receipt_id, 404)
       ELSE IF ~has_permission(u, "update")
       THEN Reply("delete_receipt", u, receipt_id, 403)
       ELSE IF /\ ~has_permission(u, "manage_users")
               /\ transactions[receipts[receipt_id].transaction_id].user_id # u
       THEN Reply("delete_receipt", u, receipt_id, 403)
       ELSE
         LET removed == delete_file(files, receipts[receipt_id].filename,
                                    remove_ok)
         IN  IF removed.raised
             THEN Raised("delete_receipt", u, receipt_id, "OSError", removed.fs)
             ELSE
               /\ files' = removed.fs
               /\ IF commit_ok
                  THEN /\ receipts' = WithoutRows(receipts, {receipt_id})
                       /\ Audited(log_audit_action(audit_ok, u, "delete_receipt",
                                           "receipts", receipt_id),
                                  Response("delete_receipt", u, receipt_id, 302,
                                           "", <<removed.result>>))
                       /\ UNCHANGED <<roles, users, sessions, categories, tags,
                                      transactions, spending_limits, today,
                                      probe, inflight>>
                  ELSE RolledBack("delete_receipt", u, receipt_id)

-----------------------------------------------------------------------------
(* The transaction list: src/app/routes.py, transactions() *)

RECURSIVE Like(_, _)
(* SQL LIKE on lowered texts: % matches any run, _ any one character *)
Like(pattern, text) ==
    IF pattern = <<>> THEN text = <<>>
    ELSE IF Head(pattern) = "%"
    THEN \E k \in 0..Len(text) :
             Like(Tail(pattern), SubSeq(text, k + 1, Len(text)))
    ELSE /\ text # <<>>
         /\ (Head(pattern) = "_" \/ Head(pattern) = Head(text))
         /\ Like(Tail(pattern), Tail(text))

(* column.ilike(f"%{term}%"); a NULL column matches nothing *)
ilike(column, term) ==
    /\ column # NullText
    /\ Like(<<"%">> \o LowerText(term) \o <<"%">>, LowerText(column))

RECURSIVE order_by_date_desc_only(_)
order_by_date_desc_only(S) ==
    IF S = {} THEN <<>>
    ELSE LET first ==
               CHOOSE i \in S : \A j \in S \ {i} :
                   \/ transactions[i].transaction_date
                        > transactions[j].transaction_date
                   \/ /\ transactions[i].transaction_date
                           = transactions[j].transaction_date
                      /\ transactions[i].created_at < transactions[j].created_at
         IN <<first>> \o order_by_date_desc_only(S \ {first})

RECURSIVE order_by_date_desc(_)
(* order_by(desc(transaction_date), desc(created_at)) over the ids of S *)
order_by_date_desc(S) ==
    IF S = {} THEN <<>>
    ELSE LET first ==
               CHOOSE i \in S : \A j \in S \ {i} :
                   \/ transactions[i].transaction_date
                        > transactions[j].transaction_date
                   \/ /\ transactions[i].transaction_date
                           = transactions[j].transaction_date
                      /\ transactions[i].created_at > transactions[j].created_at
         IN <<first>> \o order_by_date_desc(S \ {first})

(* query.paginate(page, per_page, error_out=False) *)
paginate(items, page) ==
    LET p == IF page < 1 THEN 1 ELSE page
        lo == (p - 1) * per_page + 1
        hi == IF p * per_page < Len(items) THEN p * per_page ELSE Len(items)
    IN SubSeq(items, lo, hi)

Listed(i) == [id |-> i, row |-> transactions[i]]

filter_transactions_all_users(u, q) ==
    {i \in DOMAIN transactions :
        /\ (q.search_term \in {NullText, <<>>}
              \/ ilike(transactions[i].description, q.search_term)
              \/ ilike(transactions[i].notes, q.search_term)
              \/ ilike(transactions[i].party, q.search_term))
        /\ (q.category_id = 0 \/ transactions[i].category_id = q.category_id)
        /\ (q.type = "" \/ transactions[i].type = q.type)
        /\ (q.start_date = NoDate
              \/ transactions[i].transaction_date >= q.start_date)
        /\ (q.end_date = NoDate
              \/ transactions[i].transaction_date <= q.end_date)}

(* The rows the filters of the search form keep, for requester u *)
filter_transactions(u, q) ==
    {i \in DOMAIN transactions :
        /\ (has_permission(u, "manage_users") \/ transactions[i].user_id = u)
        /\ (q.search_term \in {NullText, <<>>}
              \/ ilike(transactions[i].description, q.search_term)
              \/ ilike(transactions[i].notes, q.search_term)
              \/ ilike(transactions[i].party, q.search_term))
        /\ (q.category_id = 0 \/ transactions[i].category_id = q.category_id)
        /\ (q.type = "" \/ transactions[i].type = q.type)
        /\ (q.start_date = NoDate
              \/ transactions[i].transaction_date >= q.start_date)
        /\ (q.end_date = NoDate
              \/ transactions[i].transaction_date <= q.end_date)}

list_transactions(u, q) ==
    /\ u \in sessions
    /\ IF ~has_permission(u, "read")
       THEN Reply("transactions", u, 0, 403)
       ELSE LET ids == paginate(order_by_date_desc(filter_transactions(u, q)),
                                q.page)
            IN /\ resp' = Response("transactions", u, q, 200, "",
                                   [k \in DOMAIN ids |-> Listed(ids[k])])
               /\ UNCHANGED <<store, probe, inflight>>

-----------------------------------------------------------------------------
(* Users: src/app/routes.py and src/app/forms.py *)

password_length(password) ==
    CASE password = "admin123" -> 8
      [] password = "secret" -> 6
      [] password = "short" -> 5
      [] OTHER -> 0

generate_password_hash(password) == <<"hash", password>>

check_password_hash(hash, password) == hash = <<"hash", password>>

(* Email(): one "@" with text on both sides; an address is the sequence of *)
(* its parts between "@" signs.                                            *)
EmailOk(email) == Len(email) = 2 /\ email[1] # "" /\ email[2] # ""

UsernameTaken(username) == \E i \in DOMAIN users : users[i].username = username

EmailTaken(email) == \E i \in DOMAIN users : users[i].email = email

RegistrationForm_validate(form) ==
    /\ Len(form.username) >= 3
    /\ EmailOk(form.email)
    /\ password_length(form.password) >= 6
    /\ form.password2 = form.password
    /\ form.role_id \in DOMAIN roles
    /\ ~UsernameTaken(form.username)
    /\ ~EmailTaken(form.email)

UserForm_validate(user, form) ==
    /\ Len(form.username) >= 3
    /\ EmailOk(form.email)
    /\ form.role_id \in DOMAIN roles
    /\ (form.password = "" \/ password_length(form.password) >= 6)
    /\ (user.username = form.username \/ ~UsernameTaken(form.username))
    /\ (user.email = form.email \/ ~EmailTaken(form.email))

login_without_active_check(username, password, audit_ok) ==
    LET found == {i \in DOMAIN users : users[i].username = username}
    IN IF /\ found # {}
          /\ check_password_hash(users[MaxOf(found)].password_hash, password)
       THEN IF FALSE
            THEN Reply("login", MaxOf(found), 0, 200)
            ELSE /\ sessions' = sessions \cup found
                 /\ Audited(log_audit_action(audit_ok, MaxOf(found), "login", "", 0),
                            Response("login", MaxOf(found), 0, 302, "", <<>>))
                 /\ UNCHANGED <<roles, users, categories, tags, transactions,
                                receipts, files, spending_limits, today, probe, inflight>>
       ELSE Reply("login", 0, 0, 200)

login(username, password, audit_ok) ==
    LET found == {i \in DOMAIN users : users[i].username = username}
    IN IF /\ found # {}
          /\ check_password_hash(users[MaxOf(found)].password_hash, password)
       THEN IF ~users[MaxOf(found)].is_active
            THEN Reply("login", MaxOf(found), 0, 200)
            ELSE /\ sessions' = sessions \cup found
                 /\ Audited(log_audit_action(audit_ok, MaxOf(found), "login", "", 0),
                            Response("login", MaxOf(found), 0, 302, "", <<>>))
                 /\ UNCHANGED <<roles, users, categories, tags, transactions,
                                receipts, files, spending_limits, today, probe, inflight>>
       ELSE Reply("login", 0, 0, 200)

(* logout, up to and including its first statement: the audit entry is    *)
(* written (and committed) while the session is still there; the request   *)
(* is then in flight until logout_user runs.                               *)
logout(u, audit_ok) ==
    /\ u \in sessions
    /\ \A r \in inflight : ~(r.op = "logout" /\ r.user = u)
    /\ LET audit == log_audit_action(audit_ok, u, "logout", "", 0)
       IN /\ Len(audit.logs) <= MaxAudit
          /\ audit_logs' = audit.logs
          /\ IF audit.raised
             THEN /\ resp' = Response("logout", u, 0, 500, "Exception", <<>>)
                  /\ UNCHANGED inflight
             ELSE /\ inflight' = inflight \cup
                       {[op |-> "logout", user |-> u, logged |-> audit.logged]}
                  /\ UNCHANGED resp
    /\ UNCHANGED <<roles, users, sessions, categories, tags, transactions,
                   receipts, files, spending_limits, today, probe>>

(* The rest of logout: logout_user() ends the session, then the redirect *)
logout_user(u) ==
    \E r \in inflight :
        /\ r.op = "logout" /\ r.user = u
        /\ inflight' = inflight \ {r}
        /\ sessions' = sessions \ {u}
        /\ resp' = [Response("logout", u, 0, 302, "", <<>>)
                       EXCEPT !.logged = r.logged]
        /\ UNCHANGED <<roles, users, categories, tags, transactions, receipts,
                       files, spending_limits, audit_logs, today, probe>>

register(u, form, commit_ok, audit_ok) ==
    /\ u \in sessions
    /\ IF ~has_permission(u, "manage_users")
       THEN Reply("register", u, 0, 403)
       ELSE IF ~RegistrationForm_validate(form)
       THEN Reply("register", u, 0, 200)
       ELSE /\ Len(users) < MaxUsers
            /\ IF commit_ok
               THEN /\ users' = Append(users,
                          [username |-> form.username,
                           email |-> form.email,
                           password_hash |-> generate_password_hash(form.password),
                           role_id |-> form.role_id,
                           is_active |-> TRUE])
                    /\ Audited(log_audit_action(audit_ok, u, "create_user", "users",
                                        Len(users) + 1),
                               Response("register", u, Len(users) + 1, 302, "",
                                        <<>>))
                    /\ UNCHANGED <<roles, sessions, categories, tags,
                                   transactions, receipts, files,
                                   spending_limits, today, probe, inflight>>
               ELSE /\ RolledBack("register", u, 0)
                    /\ UNCHANGED files

edit_user(u, id, form, commit_ok, audit_ok) ==
    /\ u \in sessions
    /\ IF ~has_permission(u, "manage_users")
       THEN Reply("edit_user", u, id, 403)
       ELSE IF id \notin DOMAIN users
       THEN Reply("edit_user", u, id, 404)
       ELSE IF ~UserForm_validate(users[id], form)
       THEN Reply("edit_user", u, id, 200)
       ELSE IF commit_ok
       THEN /\ users' = [users EXCEPT ![id] =
                           [username |-> form.username,
                            email |-> form.email,
                            password_hash |->
                                IF form.password # ""
                                THEN generate_password_hash(form.password)
                                ELSE users[id].password_hash,
                            role_id |-> form.role_id,
                            is_active |-> form.is_active]]
            /\ Audited(log_audit_action(audit_ok, u, "update_user", "users", id),
                       Response("edit_user", u, id, 302, "", <<>>))
            /\ UNCHANGED <<roles, sessions, categories, tags, transactions,
                           receipts, files, spending_limits, today, probe, inflight>>
       ELSE /\ RolledBack("edit_user", u, id)
            /\ UNCHANGED files

delete_user_cascading(u, id, commit_ok, audit_ok) ==
    /\ u \in sessions
    /\ IF ~has_permission(u, "manage_users")
       THEN Reply("delete_user", u, id, 403)
       ELSE IF id \notin DOMAIN users
       THEN Reply("delete_user", u, id, 404)
       ELSE IF id = u
       THEN Reply("delete_user", u, id, 302)
       ELSE IF commit_ok
       THEN /\ users' = [users EXCEPT ![id].is_active = FALSE]
            /\ transactions' =
                 WithoutRows(transactions,
                             {t \in DOMAIN transactions :
                                  transactions[t].user_id = id})
            /\ Audited(log_audit_action(audit_ok, u, "deactivate_user", "users", id),
                       Response("delete_user", u, id, 302, "", <<>>))
            /\ UNCHANGED <<roles, sessions, categories, tags,
                           receipts, files, spending_limits, today, probe, inflight>>
       ELSE /\ RolledBack("delete_user", u, id)
            /\ UNCHANGED files

(* delete_user: the account is deactivated, no row is removed *)
delete_user(u, id, commit_ok, audit_ok) ==
    /\ u \in sessions
    /\ IF ~has_permission(u, "manage_users")
       THEN Reply("delete_user", u, id, 403)
       ELSE IF id \notin DOMAIN users
       THEN Reply("delete_user", u, id, 404)
       ELSE IF id = u
       THEN Reply("delete_user", u, id, 302)
       ELSE IF commit_ok
       THEN /\ users' = [users EXCEPT ![id].is_active = FALSE]
            /\ Audited(log_audit_action(audit_ok, u, "deactivate_user", "users", id),
                       Response("delete_user", u, id, 302, "", <<>>))
            /\ UNCHANGED <<roles, sessions, categories, tags, transactions,
                           receipts, files, spending_limits, today, probe, inflight>>
       ELSE /\ RolledBack("delete_user", u, id)
            /\ UNCHANGED files

IntegrityError_never(table) == FALSE

(* The UNIQUE constraints of users.username and users.email: committing    *)
(* table raises IntegrityError when two rows share a username or an email. *)
IntegrityError(table) ==
    \E i, j \in DOMAIN table :
        /\ i # j
        /\ (table[i].username = table[j].username
              \/ table[i].email = table[j].email)

(* ProfileForm.validate: the email is required and well formed; nothing    *)
(* looks for another account with the same email.                          *)
ProfileForm_validate(form) == EmailOk(form.email)

(* profile: of the fields it sets, the email is the one the model stores *)
profile(u, form, commit_ok, audit_ok) ==
    /\ u \in sessions
    /\ IF ~ProfileForm_validate(form)
       THEN Reply("profile", u, u, 200)
       ELSE LET table == [users EXCEPT ![u].email = form.email]
            IN IF commit_ok /\ ~IntegrityError(table)
               THEN /\ users' = table
                    /\ Audited(log_audit_action(audit_ok, u, "update_profile", "", 0),
                               Response("profile", u, u, 302, "", <<>>))
                    /\ UNCHANGED <<roles, sessions, categories, tags,
                                   transactions, receipts, files,
                                   spending_limits, today, probe, inflight>>
               ELSE /\ resp' = Response("profile", u, u, 500,
                                        IF commit_ok THEN "IntegrityError"
                                        ELSE "SQLAlchemyError", <<>>)
                    /\ UNCHANGED <<store, probe, inflight>>

(* Concurrent requests. register and edit_user read the users table in     *)
(* their validators and write it at their commit, and another request may  *)
(* commit in between: register_validate and edit_user_validate are the     *)
(* handler up to form.validate_on_submit(), after which the request is in  *)
(* flight, register_commit and edit_user_commit the rest of the handler.   *)
register_validate(u, form) ==
    /\ u \in sessions
    /\ IF ~has_permission(u, "manage_users")
       THEN Reply("register", u, 0, 403)
       ELSE IF ~RegistrationForm_validate(form)
       THEN Reply("register", u, 0, 200)
       ELSE /\ inflight' = inflight \cup
                 {[op |-> "register", user |-> u, target |-> 0, form |-> form]}
            /\ UNCHANGED <<store, resp, probe>>

register_commit(r, commit_ok, audit_ok) ==
    /\ r \in inflight
    /\ r.op = "register"
    /\ inflight' = inflight \ {r}
    /\ LET table == Append(users,
                       [username |-> r.form.username,
                        email |-> r.form.email,
                        password_hash |-> generate_password_hash(r.form.password),
                        role_id |-> r.form.role_id,
                        is_active |-> TRUE])
       IN IF commit_ok /\ ~IntegrityError(table)
          THEN /\ Len(users) < MaxUsers
               /\ users' = table
               /\ Audited(log_audit_action(audit_ok, r.user, "create_user",
                                           "users", Len(table)),
                          Response("register", r.user, Len(table), 302, "", <<>>))
               /\ UNCHANGED <<roles, sessions, categories, tags, transactions,
                              receipts, files, spending_limits, today, probe>>
          ELSE /\ resp' = Response("register", r.user, 0, 500,
                                   IF commit_ok THEN "IntegrityError"
                                   ELSE "SQLAlchemyError", <<>>)
               /\ UNCHANGED <<store, probe>>

edit_user_validate(u, id, form) ==
    /\ u \in sessions
    /\ IF ~has_permission(u, "manage_users")
       THEN Reply("edit_user", u, id, 403)
       ELSE IF id \notin DOMAIN users
       THEN Reply("edit_user", u, id, 404)
       ELSE IF ~UserForm_validate(users[id], form)
       THEN Reply("edit_user", u, id, 200)
       ELSE /\ inflight' = inflight \cup
                 {[op |-> "edit_user", user |-> u, target |-> id, form |-> form]}
            /\ UNCHANGED <<store, resp, probe>>

edit_user_commit(r, commit_ok, audit_ok) ==
    /\ r \in inflight
    /\ r.op = "edit_user"
    /\ inflight' = inflight \ {r}
    /\ LET table == [users EXCEPT ![r.target] =
                       [username |-> r.form.username,
                        email |-> r.form.email,
                        password_hash |->
                            IF r.form.password # ""
                            THEN generate_password_hash(r.form.password)
                            ELSE users[r.target].password_hash,
                        role_id |-> r.form.role_id,
                        is_active |-> r.form.is_active]]
       IN IF commit_ok /\ ~IntegrityError(table)
          THEN /\ users' = table
               /\ Audited(log_audit_action(audit_ok, r.user, "update_user",
                                           "users", r.target),
                          Response("edit_user", r.user, r.target, 302, "", <<>>))
               /\ UNCHANGED <<roles, sessions, categories, tags, transactions,
                              receipts, files, spending_limits, today, probe>>
          ELSE /\ resp' = Response("edit_user", r.user, r.target, 500,
                                   IF commit_ok THEN "IntegrityError"
                                   ELSE "SQLAlchemyError", <<>>)
               /\ UNCHANGED <<store, probe>>

-----------------------------------------------------------------------------
(* Settings: categories and spending limits *)

CategoryForm_validate(form) == form.name # <<>> /\ form.name # NullText

add_category(u, form, commit_ok, audit_ok) ==
    /\ u \in sessions
    /\ IF ~has_permission(u, "create")
       THEN Reply("add_category", u, 0, 403)
       ELSE IF ~CategoryForm_validate(form)
       THEN Reply("add_category", u, 0, 302)
       ELSE /\ Len(categories) < MaxCategories
            /\ IF commit_ok
               THEN /\ categories' = Append(categories,
                          [name |-> form.name, is_system |-> FALSE])
                    /\ Audited(log_audit_action(audit_ok, u, "create_category",
                                        "categories", Len(categories) + 1),
                               Response("add_category", u, Len(categories) + 1,
                                        302, "", <<>>))
                    /\ UNCHANGED <<roles, users, sessions, tags, transactions,
                                   receipts, files, spending_limits, today,
                                   probe, inflight>>
               ELSE /\ RolledBack("add_category", u, 0)
                    /\ UNCHANGED files

SpendingLimitForm_validate_min_zero(form) ==
    /\ form.type \in {"daily", "monthly"}
    /\ form.amount # NoAmount /\ form.amount >= 0
    /\ form.category_id \in {0} \cup DOMAIN categories

(* SpendingLimitForm.validate: DataRequired refuses a missing amount and   *)
(* 0, NumberRange(min=0.01) anything below one cent.                       *)
SpendingLimitForm_validate(form) ==
    /\ form.type \in {"daily", "monthly"}
    /\ form.amount # NoAmount /\ form.amount # 0 /\ form.amount >= 1
    /\ form.category_id \in {0} \cup DOMAIN categories

add_spending_limit(u, form, commit_ok, audit_ok) ==
    /\ u \in sessions
    /\ IF ~SpendingLimitForm_validate(form)
       THEN Reply("add_spending_limit", u, 0, 302)
       ELSE /\ Len(spending_limits) < MaxLimits
            /\ IF commit_ok
               THEN /\ spending_limits' = Append(spending_limits,
                          [type |-> form.type,
                           amount |-> form.amount,
                           is_active |-> form.is_active,
                           user_id |-> u,
                           category_id |-> form.category_id])
                    /\ Audited(log_audit_action(audit_ok, u, "create_spending_limit",
                                        "spending_limits",
                                        Len(spending_limits) + 1),
                               Response("add_spending_limit", u,
                                        Len(spending_limits) + 1, 302, "", <<>>))
                    /\ UNCHANGED <<roles, users, sessions, categories, tags,
                                   transactions, receipts, files, today, probe, inflight>>
               ELSE /\ RolledBack("add_spending_limit", u, 0)
                    /\ UNCHANGED files

-----------------------------------------------------------------------------
(* Overlapping requests on transactions: src/app/routes.py. Each request   *)
(* has its own database session, so what a request read stays what it      *)
(* read while another request commits. add_transaction and                 *)
(* edit_transaction are cut where they have read the store: the first part *)
(* ends with the request in flight, carrying the row and the tags table it *)
(* read, and the second part flushes and commits.                          *)

TagIntegrityError_never(tbl) == FALSE

(* The UNIQUE constraint of tags.name (src/app/models.py, Tag): flushing a *)
(* table where two rows share a name raises IntegrityError.                *)
TagIntegrityError(tbl) ==
    \E i, j \in DOMAIN tbl : i # j /\ tbl[i] = tbl[j]

(* The Tag rows the loop of a request adds to its session: the names of    *)
(* its list that it did not find, each once.                               *)
created_tags(seen_tags, tag_names) ==
    LET tbl == find_or_create_tags(seen_tags, tag_names)
    IN SubSeq(tbl, Len(seen_tags) + 1, Len(tbl))

Pending(u) ==
    \E r \in inflight : r.op \in {"add_transaction", "edit_transaction"}
                        /\ r.user = u

(* A request that raised after its part in flight: status 500, the session *)
(* rolled back, the files it wrote left where they are.                    *)
Failed(r, error, fs) ==
    /\ resp' = Response(r.op, r.user, r.target, 500, error, <<>>)
    /\ files' = fs
    /\ inflight' = inflight \ {r}
    /\ UNCHANGED <<roles, users, sessions, categories, tags, transactions,
                   receipts, spending_limits, audit_logs, today, probe>>

(* add_transaction up to the Tag queries of its loop *)
add_transaction_lookup(u, form) ==
    /\ u \in sessions
    /\ ~Pending(u)
    /\ IF ~has_permission(u, "create")
       THEN Reply("add_transaction", u, 0, 403)
       ELSE IF ~TransactionForm_validate(form)
       THEN Reply("add_transaction", u, 0, 200)
       ELSE /\ inflight' = inflight \cup
                 {[op |-> "add_transaction", user |-> u, target |-> 0,
                   form |-> form, seen_tags |-> tags, seen |-> <<>>]}
            /\ UNCHANGED <<store, resp, probe>>

(* The rest of add_transaction: the Tag rows it did not find are inserted, *)
(* then the associations and the receipt, and the session commits.         *)
add_transaction_insert(r, commit_ok, audit_ok) ==
    /\ r \in inflight
    /\ r.op = "add_transaction"
    /\ LET u == r.user
           form == r.form
           id == NextId(DOMAIN transactions)
           tag_names == parse_tags(form.tags)
           tbl == tags \o created_tags(r.seen_tags, tag_names)
           filename == save_uploaded_file(form.receipts)
           fs == IF filename # 0 THEN files \cup {filename} ELSE files
           row == [type |-> form.type,
                   amount |-> form.amount,
                   description |-> form.description,
                   notes |-> form.notes,
                   party |-> form.party,
                   transaction_date |-> form.transaction_date,
                   created_at |-> id,
                   user_id |-> u,
                   category_id |-> form.category_id,
                   tags |-> {TagId(tbl, n) : n \in SeqToSet(tag_names)}]
       IN  /\ id <= MaxTx
           /\ filename <= MaxFiles
           /\ IF TagIntegrityError(tbl)
              THEN Failed(r, "IntegrityError", fs)
              ELSE IF ~commit_ok
              THEN Failed(r, "SQLAlchemyError", fs)
              ELSE
                /\ files' = fs
                /\ inflight' = inflight \ {r}
                /\ transactions' = WithRow(transactions, id, row)
                /\ tags' = tbl
                /\ receipts' =
                     IF filename # 0
                     THEN WithRow(receipts, NextId(DOMAIN receipts),
                                  [filename |-> filename,
                                   original_filename |-> form.receipts,
                                   transaction_id |-> id])
                     ELSE receipts
                /\ Audited(log_audit_action(audit_ok, u, "create_transaction",
                                    "transactions", id),
                           Response("add_transaction", u, id, 302, "", <<>>))
                /\ UNCHANGED <<roles, users, sessions, categories,
                               spending_limits, today, probe>>

(* edit_transaction up to get_or_404 and the checks: the row is loaded,    *)
(* its tags with it (lazy='subquery').                                     *)
edit_transaction_load(u, id, form) ==
    /\ u \in sessions
    /\ ~Pending(u)
    /\ IF id \notin DOMAIN transactions
       THEN Reply("edit_transaction", u, id, 404)
       ELSE IF ~has_permission(u, "update")
       THEN Reply("edit_transaction", u, id, 403)
       ELSE IF ~has_permission(u, "manage_users") /\ transactions[id].user_id # u
       THEN Reply("edit_transaction", u, id, 403)
       ELSE IF ~TransactionForm_validate(form)
       THEN Reply("edit_transaction", u, id, 200)
       ELSE /\ inflight' = inflight \cup
                 {[op |-> "edit_transaction", user |-> u, target |-> id,
                   form |-> form, seen_tags |-> tags,
                   seen |-> transactions[id]]}
            /\ UNCHANGED <<store, resp, probe>>

(* The columns edit_transaction assigns from the form *)
FormColumns ==
    {"type", "amount", "description", "notes", "party", "transaction_date",
     "category_id"}

(* The rest of edit_transaction. The flush writes the columns whose        *)
(* assigned value differs from the loaded one (the UPDATE names no other   *)
(* column), deletes the associations that were loaded and are not in the   *)
(* new list, and inserts those of the new list that were not loaded. An    *)
(* UPDATE that matches no row raises StaleDataError; a DELETE that matches *)
(* no association raises it where the driver reports row counts            *)
(* (stale_raises) and is ignored elsewhere; an INSERT of an association    *)
(* that is there raises IntegrityError (primary key of transaction_tags).  *)
edit_transaction_save(r, stale_raises, commit_ok, audit_ok) ==
    /\ r \in inflight
    /\ r.op = "edit_transaction"
    /\ LET u == r.user
           id == r.target
           form == r.form
           tag_names == parse_tags(form.tags)
           tbl == tags \o created_tags(r.seen_tags, tag_names)
           wanted == {TagId(tbl, n) : n \in SeqToSet(tag_names)}
           removed == r.seen.tags \ wanted
           added == wanted \ r.seen.tags
           filename == save_uploaded_file(form.receipts)
           fs == IF filename # 0 THEN files \cup {filename} ELSE files
           row == [c \in DOMAIN transactions[id] |->
                     IF c \in FormColumns
                     THEN IF form[c] # r.seen[c] THEN form[c]
                          ELSE transactions[id][c]
                     ELSE IF c = "tags"
                     THEN (transactions[id].tags \ removed) \cup added
                     ELSE transactions[id][c]]
       IN  /\ filename <= MaxFiles
           /\ IF id \notin DOMAIN transactions
              THEN Failed(r, "StaleDataError", fs)
              ELSE IF TagIntegrityError(tbl)
              THEN Failed(r, "IntegrityError", fs)
              ELSE IF added \cap transactions[id].tags # {}
              THEN Failed(r, "IntegrityError", fs)
              ELSE IF stale_raises /\ ~(removed \subseteq transactions[id].tags)
              THEN Failed(r, "StaleDataError", fs)
              ELSE IF ~commit_ok
              THEN Failed(r, "SQLAlchemyError", fs)
              ELSE
                /\ files' = fs
                /\ inflight' = inflight \ {r}
                /\ transactions' = WithRow(transactions, id, row)
                /\ tags' = tbl
                /\ receipts' =
                     IF filename # 0
                     THEN WithRow(receipts, NextId(DOMAIN receipts),
                                  [filename |-> filename,
                                   original_filename |-> form.receipts,
                                   transaction_id |-> id])
                     ELSE receipts
                /\ Audited(log_audit_action(audit_ok, u, "update_transaction",
                                    "transactions", id),
                           Response("edit_transaction", u, id, 302, "", <<>>))
                /\ UNCHANGED <<roles, users, sessions, categories,
                               spending_limits, today, probe>>

-----------------------------------------------------------------------------
(* Backup: src/app/utils.py, backup_database, and src/app/routes.py *)

backup_database_with_hashes ==
    [users |-> [i \in DOMAIN users |-> [id |-> i] @@ users[i]],
     transactions |->
        [i \in DOMAIN transactions |->
            [id |-> i,
             type |-> transactions[i].type,
             amount |-> transactions[i].amount,
             description |-> transactions[i].description,
             notes |-> transactions[i].notes,
             party |-> transactions[i].party,
             transaction_date |-> transactions[i].transaction_date,
             user_id |-> transactions[i].user_id,
             category_id |-> transactions[i].category_id,
             tags |-> {tags[t] : t \in transactions[i].tags}]],
     categories |->
        [i \in DOMAIN categories |-> [id |-> i] @@ categories[i]],
     tags |-> [i \in DOMAIN tags |-> [id |-> i, name |-> tags[i]]],
     spending_limits |->
        [i \in DOMAIN spending_limits |-> [id |-> i] @@ spending_limits[i]]]

(* backup_database: the document before json.dumps, one entry per row of   *)
(* the five tables it exports; a user entry has no password_hash key.      *)
backup_database ==
    [users |->
        [i \in DOMAIN users |->
            [id |-> i,
             username |-> users[i].username,
             email |-> users[i].email,
             is_active |-> users[i].is_active,
             role_id |-> users[i].role_id]],
     transactions |->
        [i \in DOMAIN transactions |->
            [id |-> i,
             type |-> transactions[i].type,
             amount |-> transactions[i].amount,
             description |-> transactions[i].description,
             notes |-> transactions[i].notes,
             party |-> transactions[i].party,
             transaction_date |-> transactions[i].transaction_date,
             user_id |-> transactions[i].user_id,
             category_id |-> transactions[i].category_id,
             tags |-> {tags[t] : t \in transactions[i].tags}]],
     categories |->
        [i \in DOMAIN categories |-> [id |-> i] @@ categories[i]],
     tags |-> [i \in DOMAIN tags |-> [id |-> i, name |-> tags[i]]],
     spending_limits |->
        [i \in DOMAIN spending_limits |-> [id |-> i] @@ spending_limits[i]]]

backup(u) ==
    /\ u \in sessions
    /\ IF ~has_permission(u, "backup")
       THEN Reply("backup", u, 0, 403)
       ELSE /\ resp' = Response("backup", u, 0, 200, "", backup_database)
            /\ UNCHANGED <<store, probe, inflight>>

-----------------------------------------------------------------------------
(* Spending limits: src/app/models.py, SpendingLimit *)

(* today.replace(day=1) *)
first_of_month(d) == ((d - 1) \div DaysPerMonth) * DaysPerMonth + 1

get_period_start(limit) ==
    IF limit.type = "daily" THEN today
    ELSE IF limit.type = "monthly" THEN first_of_month(today)
    ELSE today

get_spent_amount_any_type(limit) ==
    LET period_start == get_period_start(limit)
        rows == {i \in DOMAIN transactions :
                    /\ transactions[i].user_id = limit.user_id
                    /\ transactions[i].transaction_date >= period_start
                    /\ (limit.category_id # 0
                          => transactions[i].category_id = limit.category_id)}
    IN SumOver([i \in rows |-> transactions[i].amount], rows)

(* func.sum over the filtered rows, "result or 0" when there is none *)
get_spent_amount(limit) ==
    LET period_start == get_period_start(limit)
        rows == {i \in DOMAIN transactions :
                    /\ transactions[i].user_id = limit.user_id
                    /\ transactions[i].type = "expense"
                    /\ transactions[i].transaction_date >= period_start
                    /\ (limit.category_id # 0
                          => transactions[i].category_id = limit.category_id)}
    IN SumOver([i \in rows |-> transactions[i].amount], rows)

is_exceeded(limit) == get_spent_amount(limit) > limit.amount

LimitsOf(u) == {l \in DOMAIN spending_limits : spending_limits[l].user_id = u}

(* The spending alerts of the dashboard, in the order of the limit ids *)
dashboard_alerts(u) ==
    LET shown == {l \in LimitsOf(u) :
                     /\ spending_limits[l].is_active
                     /\ is_exceeded(spending_limits[l])}
        ids == SortedSeq(shown)
    IN [k \in DOMAIN ids |->
           [limit |-> ids[k],
            spent |-> get_spent_amount(spending_limits[ids[k]])]]

dashboard(u) ==
    /\ u \in sessions
    /\ resp' = Response("dashboard", u, 0, 200, "",
                        IF has_permission(u, "read") THEN dashboard_alerts(u)
                        ELSE <<>>)
    /\ UNCHANGED <<store, probe, inflight>>

(* "limit.amount * 0.8": limit.amount is a Decimal (Numeric column) and    *)
(* 0.8 a float, and Decimal.__mul__ refuses a float: TypeError.            *)
decimal_times_float(amount) == [raised |-> TRUE, value |-> 0]

api_spending_check(u, category_id) ==
    /\ u \in sessions
    /\ LET limits == {l \in LimitsOf(u) :
                         /\ spending_limits[l].category_id = category_id
                         /\ spending_limits[l].is_active}
           ids == SortedSeq(limits)
           raised == \E l \in limits :
                         decimal_times_float(spending_limits[l].amount).raised
           alerts == SelectSeq(ids, LAMBDA l :
                         get_spent_amount(spending_limits[l])
                           > decimal_times_float(spending_limits[l].amount).value)
       IN IF raised
          THEN Raised("api_spending_check", u, category_id, "TypeError", files)
          ELSE /\ resp' = Response("api_spending_check", u, category_id, 200, "",
                     [k \in DOMAIN alerts |->
                        [limit |-> alerts[k],
                         spent |-> get_spent_amount(spending_limits[alerts[k]]),
                         exceeded |-> is_exceeded(spending_limits[alerts[k]])]])
               /\ UNCHANGED <<store, probe, inflight>>

(* date.today() moves on *)
next_day ==
    /\ today < MaxDay
    /\ today' = today + 1
    /\ UNCHANGED <<roles, users, sessions, categories, tags, transactions,
                   receipts, files, spending_limits, audit_logs, resp, probe, inflight>>

-----------------------------------------------------------------------------
(* Reports: src/app/routes.py, reports(), and src/app/utils.py *)

(* f"${amount:,.2f}": sign, whole units and cents *)
format_currency(amount) ==
    LET abs == IF amount < 0 THEN 0 - amount ELSE amount
    IN [negative |-> amount < 0, units |-> abs \div 100, cents |-> abs % 100]

RECURSIVE sum_amounts(_, _)
(* sum(t.amount for t in rows if t.type == type), in the order of rows *)
sum_amounts(rows, type) ==
    IF rows = <<>> THEN 0
    ELSE (IF Head(rows).type = type THEN Head(rows).amount ELSE 0)
           + sum_amounts(Tail(rows), type)

pdf_summary_net_adds(rows) ==
    LET total_income == sum_amounts(rows, "income")
        total_expense == sum_amounts(rows, "expense")
        net_amount == total_income + total_expense
    IN [total_income |-> format_currency(total_income),
        total_expense |-> format_currency(total_expense),
        net_amount |-> format_currency(net_amount)]

(* The summary table of generate_pdf_report *)
pdf_summary(rows) ==
    LET total_income == sum_amounts(rows, "income")
        total_expense == sum_amounts(rows, "expense")
        net_amount == total_income - total_expense
    IN [total_income |-> format_currency(total_income),
        total_expense |-> format_currency(total_expense),
        net_amount |-> format_currency(net_amount)]

(* The Summary sheet of generate_excel_report: float(total) *)
excel_summary(rows) ==
    LET total_income == sum_amounts(rows, "income")
        total_expense == sum_amounts(rows, "expense")
        net_amount == total_income - total_expense
    IN [total_income |-> total_income,
        total_expense |-> total_expense,
        net_amount |-> net_amount]

ReportForm_validate(form) ==
    /\ form.start_date # NoDate
    /\ form.end_date # NoDate
    /\ form.user_id \in {0} \cup {i \in DOMAIN users : users[i].is_active}
    /\ form.category_id \in {0} \cup DOMAIN categories
    /\ form.type \in {"", "income", "expense"}
    /\ form.format \in {"pdf", "excel"}

report_rows_by_user_filter(u, form) ==
    {i \in DOMAIN transactions :
        /\ IF form.user_id # 0
           THEN transactions[i].user_id = form.user_id
           ELSE has_permission(u, "manage_users") \/ transactions[i].user_id = u
        /\ transactions[i].transaction_date >= form.start_date
        /\ transactions[i].transaction_date <= form.end_date
        /\ (form.category_id = 0
              \/ transactions[i].category_id = form.category_id)
        /\ (form.type = "" \/ transactions[i].type = form.type)}

report_rows(u, form) ==
    {i \in DOMAIN transactions :
        /\ IF form.user_id # 0
           THEN IF has_permission(u, "manage_users")
                THEN transactions[i].user_id = form.user_id
                ELSE transactions[i].user_id = u
           ELSE has_permission(u, "manage_users") \/ transactions[i].user_id = u
        /\ transactions[i].transaction_date >= form.start_date
        /\ transactions[i].transaction_date <= form.end_date
        /\ (form.category_id = 0
              \/ transactions[i].category_id = form.category_id)
        /\ (form.type = "" \/ transactions[i].type = form.type)}

(* order_by(transaction_date.desc()): rows of one date come in any order *)
DateDescOrders(S) ==
    {s \in [1..Cardinality(S) -> S] :
        /\ \A i, j \in DOMAIN s : i # j => s[i] # s[j]
        /\ \A i, j \in DOMAIN s :
              i < j => transactions[s[i]].transaction_date
                         >= transactions[s[j]].transaction_date}

reports(u, form) ==
    /\ u \in sessions
    /\ IF ~has_permission(u, "reports")
       THEN Reply("reports", u, 0, 403)
       ELSE IF ~ReportForm_validate(form)
       THEN Reply("reports", u, 0, 200)
       ELSE \E ids \in DateDescOrders(report_rows(u, form)) :
              LET rows == [k \in DOMAIN ids |-> Listed(ids[k])]
                  data == [k \in DOMAIN ids |-> transactions[ids[k]]]
              IN /\ resp' = Response("reports", u, 0, 200, "",
                       <<[format |-> form.format,
                          rows |-> rows,
                          summary |-> IF form.format = "pdf"
                                      THEN pdf_summary(data)
                                      ELSE excel_summary(data)]>>)
                 /\ UNCHANGED <<store, probe, inflight>>

-----------------------------------------------------------------------------
(* The store after create_app: src/app/__init__.py, lines 149-215 *)

Admin == <<"a", "d", "m", "i", "n">>
Bob == <<"b", "o", "b">>
Eve == <<"e", "v", "e">>

default_roles == <<"Admin", "Manager", "Viewer">>

admin_user ==
    [username |-> Admin,
     email |-> <<"admin", "cashbook.com">>,
     password_hash |-> generate_password_hash("admin123"),
     role_id |-> 1,
     is_active |-> TRUE]

default_categories ==
    [i \in 1..9 |->
        [name |-> <<"Food & Dining", "Transportation", "Shopping",
                    "Entertainment", "Bills & Utilities", "Healthcare",
                    "Salary", "Investment", "Other">>[i],
         is_system |-> TRUE]]

NoResponse == Response("", 0, 0, 0, "", <<>>)
NoProbe == [role |-> "", permission |-> "", result |-> FALSE, done |-> FALSE]

Seeded ==
    /\ roles = default_roles
    /\ users = <<admin_user>>
    /\ sessions = {}
    /\ categories = default_categories
    /\ tags = <<>>
    /\ transactions = <<>>
    /\ receipts = <<>>
    /\ files = {}
    /\ spending_limits = <<>>
    /\ audit_logs = <<>>
    /\ today = DaysPerMonth + 1
    /\ resp = NoResponse
    /\ probe = NoProbe
    /\ inflight = {}

seed_categories_always(table) == table \o default_categories

(* "if not Role.query.first()": the three roles, into an empty table *)
seed_roles(table) == IF table = <<>> THEN default_roles ELSE table

(* "if not User.query.filter_by(username='admin').first()": the admin      *)
(* account, with the id of the role named Admin                            *)
seed_admin(role_table, table) ==
    IF \E i \in DOMAIN table : table[i].username = Admin
    THEN table
    ELSE Append(table,
                [admin_user EXCEPT !.role_id =
                    CHOOSE r \in DOMAIN role_table : role_table[r] = "Admin"])

(* "if not Category.query.first()": the nine categories, into an empty     *)
(* table                                                                   *)
seed_categories(table) == IF table = <<>> THEN default_categories ELSE table

(* create_app, the seeding at the start of the process. Each of the three  *)
(* parts commits on its own; when the insert of the admin account breaks a *)
(* UNIQUE constraint the start fails there, after the roles.               *)
create_app ==
    /\ roles' = seed_roles(roles)
    /\ IF IntegrityError(seed_admin(roles', users))
       THEN /\ resp' = Response("create_app", 0, 0, 500, "IntegrityError", <<>>)
            /\ UNCHANGED <<users, categories>>
       ELSE /\ Len(seed_admin(roles', users)) <= MaxUsers
            /\ users' = seed_admin(roles', users)
            /\ categories' = seed_categories(categories)
            /\ resp' = Response("create_app", 0, 0, 0, "", <<>>)
    /\ UNCHANGED <<sessions, tags, transactions, receipts, files,
                   spending_limits, audit_logs, today, probe, inflight>>

(* The accounts an administrator registers next to the seeded one *)
account(username, role_id) ==
    [username |-> username,
     email |-> <<username[1], "x.org">>,
     password_hash |-> generate_password_hash("secret"),
     role_id |-> role_id,
     is_active |-> TRUE]

(* The seeded store with a Manager and a Viewer registered, all signed in *)
Staffed ==
    /\ roles = default_roles
    /\ users = <<admin_user, account(Bob, 2), account(Eve, 3)>>
    /\ sessions = {1, 2, 3}
    /\ categories = default_categories
    /\ tags = <<>>
    /\ transactions = <<>>
    /\ receipts = <<>>
    /\ files = {}
    /\ spending_limits = <<>>
    /\ audit_logs = <<>>
    /\ today = DaysPerMonth + 1
    /\ resp = NoResponse
    /\ probe = NoProbe
    /\ inflight = {}

-----------------------------------------------------------------------------
(* Requests of the ledger specification *)

TxForm(type, amount, description, notes, party, date, category_id, tgs, file) ==
    [type |-> type, amount |-> amount, description |-> description,
     notes |-> notes, party |-> party, transaction_date |-> date,
     category_id |-> category_id, tags |-> tgs, receipts |-> file]

LedgerForms ==
    { TxForm("expense", 500, <<"a", "B">>, NullText, <<>>, DaysPerMonth + 1, 1,
             <<"a", " b">>, <<"scan", "PDF">>),
      TxForm("income", 300, <<"b">>, <<"A">>, NullText, DaysPerMonth, 7,
             <<"">>, NoFile),
      TxForm("expense", 0, <<"a">>, <<>>, <<>>, DaysPerMonth + 1, 1,
             <<>>, NoFile) }

(* The forms of the edit page: another receipt for the transaction *)
LedgerEditForms ==
    { TxForm("expense", 500, <<"a", "B">>, NullText, <<>>, DaysPerMonth + 1, 1,
             <<"a", " b">>, <<"scan", "PDF">>) }

Query(term, category_id, type, start_date, end_date, page) ==
    [search_term |-> term, category_id |-> category_id, type |-> type,
     start_date |-> start_date, end_date |-> end_date, page |-> page]

(* The edit form of user id as the page shows it, with the role changed *)
RoleForms(id) ==
    { [username |-> users[id].username, email |-> users[id].email,
       password |-> "", role_id |-> r, is_active |-> users[id].is_active] :
        r \in {2, 3} }

(* The requester of the ledger specification: the second account, whose    *)
(* role the administrator switches between Manager and Viewer.             *)
LedgerUsers == {2}

AddTransaction ==
    \E u \in LedgerUsers, form \in LedgerForms, commit_ok \in BOOLEAN :
        add_transaction(u, form, commit_ok, FALSE)

EditTransaction ==
    \E u \in LedgerUsers, id \in 1..MaxTx, form \in LedgerEditForms :
        edit_transaction(u, id, form, TRUE, FALSE)

DeleteTransaction ==
    \E u \in LedgerUsers, id \in 1..MaxTx, commit_ok \in BOOLEAN :
        \E failing \in SUBSET {receipts[r].filename : r \in ReceiptsOf(id)} :
            delete_transaction(u, id, failing, commit_ok, FALSE)

DeleteReceipt ==
    \E u \in LedgerUsers, id \in 1..MaxFiles, remove_ok \in BOOLEAN :
        delete_receipt(u, id, remove_ok, TRUE, FALSE)

ChangeRole ==
    \E form \in RoleForms(2) : edit_user(1, 2, form, TRUE, FALSE)

Init == Staffed

Next ==
    \/ AddTransaction
    \/ EditTransaction
    \/ DeleteTransaction
    \/ DeleteReceipt
    \/ ChangeRole

Spec == Init /\ [][Next]_vars

-----------------------------------------------------------------------------
(* Properties of the ledger specification.                                 *)
(* Every step of Spec is one request and sets resp to its response, so     *)
(* resp' names the handler that ran, the requester and the target of the   *)
(* step, while the unprimed tables are the store the request found.        *)

(* C2: a requester whose role is Viewer who asks to add, edit or delete a  *)
(* transaction is rejected (403, or 404 when the transaction does not      *)
(* exist), and the transactions, tags, receipts and stored files are what  *)
(* they were before the request.                                           *)
C2_ViewerCannotWrite ==
    [][ ( /\ resp'.op \in {"add_transaction", "edit_transaction",
                           "delete_transaction"}
          /\ RoleOf(resp'.user) = "Viewer" )
        => /\ resp'.status =
                IF /\ resp'.op # "add_transaction"
                   /\ resp'.target \notin DOMAIN transactions
                THEN 404 ELSE 403
           /\ UNCHANGED <<transactions, tags, receipts, files>> ]_vars

(* A Viewer was refused the deletion of a transaction it owns (created     *)
(* while its role was Manager) that has a receipt with a stored file.      *)
C2_ViewerRejected ==
    /\ resp.op = "delete_transaction"
    /\ resp.status = 403
    /\ RoleOf(resp.user) = "Viewer"
    /\ resp.target \in DOMAIN transactions
    /\ transactions[resp.target].user_id = resp.user
    /\ \E r \in ReceiptsOf(resp.target) : receipts[r].filename \in files

(* C9: deleting a transaction is all-or-nothing; in particular, when the   *)
(* database commit of the deletion fails, no backing file has been         *)
(* deleted: the upload folder is what it was before the request.           *)
C9_CommitFailureKeepsFiles ==
    [][ ( /\ resp'.op = "delete_transaction"
          /\ resp'.status = 500
          /\ resp'.error = "SQLAlchemyError" )
        => /\ files' = files
           /\ UNCHANGED <<transactions, receipts>> ]_vars

(* The names of the files behind the target of a deletion request *)
BackingFiles(op, target) ==
    IF op = "delete_receipt"
    THEN {receipts[r].filename : r \in DOMAIN receipts \cap {target}}
    ELSE {receipts[r].filename : r \in ReceiptsOf(target)}

(* C10: when a backing file is missing or its removal fails while a        *)
(* permitted requester deletes a receipt or a transaction, and the commit  *)
(* does not fail, nothing is raised: the request ends with the redirect    *)
(* and the records are gone from the store.                                *)
C10_FileFailureNotRaised ==
    [][ ( /\ resp'.op \in {"delete_receipt", "delete_transaction"}
          /\ resp'.status \notin {403, 404}
          /\ resp'.error # "SQLAlchemyError"
          /\ \E f \in BackingFiles(resp'.op, resp'.target) :
                 f \notin files \/ f \in files' )
        => /\ resp'.status = 302
           /\ resp'.error = ""
           /\ IF resp'.op = "delete_receipt"
              THEN resp'.target \notin DOMAIN receipts'
              ELSE /\ resp'.target \notin DOMAIN transactions'
                   /\ ReceiptsOf(resp'.target) \cap DOMAIN receipts' = {} ]_vars

(* A transaction was deleted with the redirect although a delete_file call *)
(* returned False, and the file it could not remove is still stored.       *)
C10_DeletedDespiteFileFailure ==
    /\ resp.op = "delete_transaction"
    /\ resp.status = 302
    /\ FALSE \in SeqToSet(resp.body)
    /\ resp.target \notin DOMAIN transactions
    /\ files # {}

(* C20: when the database commit of an add_transaction or                  *)
(* edit_transaction request fails, nothing of the request persists: the   *)
(* transactions, the tags and tag associations, the receipt records and   *)
(* the stored receipt files are what they were before the request.        *)
C20_FailedCommitPersistsNothing ==
    [][ ( /\ resp'.op \in {"add_transaction", "edit_transaction"}
          /\ resp'.status = 500
          /\ resp'.error = "SQLAlchemyError" )
        => UNCHANGED <<transactions, tags, receipts, files>> ]_vars

-----------------------------------------------------------------------------
(* The permission specification: has_permission evaluated for accounts of  *)
(* any role name, the three seeded ones and others.                        *)

RoleNames == {"Admin", "Manager", "Viewer", "admin", "Guest", ""}

PermissionNames == {"create", "read", "update", "delete", "manage_users",
                    "reports", "backup", "export", ""}

InitPerm ==
    /\ roles \in [1..2 -> RoleNames]
    /\ users = <<account(Bob, 1), account(Eve, 2)>>
    /\ sessions = {}
    /\ categories = default_categories
    /\ tags = <<>>
    /\ transactions = <<>>
    /\ receipts = <<>>
    /\ files = {}
    /\ spending_limits = <<>>
    /\ audit_logs = <<>>
    /\ today = DaysPerMonth + 1
    /\ resp = NoResponse
    /\ probe = NoProbe
    /\ inflight = {}

EvaluatePermission ==
    \E u \in DOMAIN users, permission \in PermissionNames :
        /\ probe' = [role |-> RoleOf(u), permission |-> permission,
                     result |-> has_permission(u, permission), done |-> TRUE]
        /\ UNCHANGED <<store, resp, inflight>>

NextPerm == EvaluatePermission

SpecPerm == InitPerm /\ [][NextPerm]_vars

(* C1: the permission evaluator grants exactly the pairs of the table:     *)
(* Admin has create, read, update, delete, manage_users, reports and       *)
(* backup; Manager has create, read, update, delete and reports; Viewer    *)
(* has read and reports; every other role name has no permission; nothing  *)
(* else is granted.                                                        *)
C1_PermissionTable ==
    probe.done =>
        probe.result =
            \/ /\ probe.role = "Admin"
               /\ \/ probe.permission = "create"
                  \/ probe.permission = "read"
                  \/ probe.permission = "update"
                  \/ probe.permission = "delete"
                  \/ probe.permission = "manage_users"
                  \/ probe.permission = "reports"
                  \/ probe.permission = "backup"
            \/ /\ probe.role = "Manager"
               /\ \/ probe.permission = "create"
                  \/ probe.permission = "read"
                  \/ probe.permission = "update"
                  \/ probe.permission = "delete"
                  \/ probe.permission = "reports"
            \/ /\ probe.role = "Viewer"
               /\ \/ probe.permission = "read"
                  \/ probe.permission = "reports"

(* The evaluator refused "read" to an account whose role name is none of   *)
(* the three, here the lower-case "admin".                                 *)
C1_UnknownRoleRefused ==
    /\ probe.done
    /\ probe.role = "admin"
    /\ probe.permission = "read"
    /\ ~probe.result

-----------------------------------------------------------------------------
(* The list specification: the three accounts add, edit and delete         *)
(* transactions and ask for the transaction list under every combination   *)
(* of the filters.                                                         *)

ListForms ==
    { TxForm("expense", 500, <<"a", "B">>, NullText, <<>>, DaysPerMonth + 1, 1,
             <<>>, NoFile),
      TxForm("income", 300, <<"b">>, <<"A">>, NullText, DaysPerMonth, 7,
             <<"">>, NoFile) }

ListQueries ==
    { Query(term, c, t, d1, d2, 1) :
        term \in {NullText, <<"a">>},
        c \in {0, 7},
        t \in {"", "expense"},
        d1 \in {NoDate, DaysPerMonth + 1},
        d2 \in {NoDate, DaysPerMonth} }
    \cup { Query(<<"%">>, 0, "", NoDate, NoDate, 1),
           Query(NullText, 0, "", NoDate, NoDate, 2),
           Query(NullText, 0, "", NoDate, NoDate, 0) }

ListAdd ==
    \E u \in DOMAIN users, form \in ListForms :
        add_transaction(u, form, TRUE, FALSE)

ListEdit ==
    \E u \in DOMAIN users, id \in 1..MaxTx, form \in ListForms :
        edit_transaction(u, id, form, TRUE, FALSE)

ListDelete ==
    \E u \in DOMAIN users, id \in 1..MaxTx :
        delete_transaction(u, id, {}, TRUE, FALSE)

ListTransactions ==
    \E u \in DOMAIN users, q \in ListQueries : list_transactions(u, q)

NextList ==
    \/ ListAdd
    \/ ListEdit
    \/ ListDelete
    \/ ChangeRole
    \/ ListTransactions

SpecList == Init /\ [][NextList]_vars

(* C3: whatever was added, edited and deleted before, and whatever the     *)
(* search term, category, type, start date, end date and page asked for,   *)
(* the transaction list shown to a requester without the manage_users      *)
(* permission holds only rows of the store that this requester owns.       *)
C3_ListOnlyOwnRows ==
    [][ ( /\ resp'.op = "transactions"
          /\ ~has_permission(resp'.user, "manage_users") )
        => \A k \in DOMAIN resp'.body :
              /\ resp'.body[k].row.user_id = resp'.user
              /\ resp'.body[k].id \in DOMAIN transactions
              /\ resp'.body[k].row = transactions[resp'.body[k].id] ]_vars

(* A requester without manage_users got a non-empty list while the store   *)
(* holds a transaction of another user.                                    *)
C3_OwnRowsListed ==
    /\ resp.op = "transactions"
    /\ resp.status = 200
    /\ ~has_permission(resp.user, "manage_users")
    /\ resp.body # <<>>
    /\ \E i \in DOMAIN transactions : transactions[i].user_id # resp.user

(* text contains term as a substring, letter case ignored *)
Contains(text, term) ==
    /\ text # NullText
    /\ \E k \in 0..(Len(text) - Len(term)) :
           LowerText(SubSeq(text, k + 1, k + Len(term))) = LowerText(term)

(* The transactions of the store that requester u may see and that satisfy *)
(* every supplied filter of query q.                                       *)
Satisfying(u, q) ==
    {i \in DOMAIN transactions :
        /\ (has_permission(u, "manage_users") \/ transactions[i].user_id = u)
        /\ (q.category_id = 0 \/ transactions[i].category_id = q.category_id)
        /\ (q.type = "" \/ transactions[i].type = q.type)
        /\ (q.start_date = NoDate
              \/ transactions[i].transaction_date >= q.start_date)
        /\ (q.end_date = NoDate
              \/ transactions[i].transaction_date <= q.end_date)
        /\ (q.search_term \in {NullText, <<>>}
              \/ Contains(transactions[i].description, q.search_term)
              \/ Contains(transactions[i].notes, q.search_term)
              \/ Contains(transactions[i].party, q.search_term))}

(* C18: the first page of the transaction list holds exactly the           *)
(* transactions visible to the requester that satisfy all supplied filters *)
(* together: category, type, start date, end date, and the search term     *)
(* occurring, letter case ignored, as a substring of the description, the  *)
(* notes or the party; an omitted filter or category 0 restricts nothing.  *)
C18_ListIsTheFilteredRows ==
    [][ ( /\ resp'.op = "transactions"
          /\ resp'.status = 200
          /\ resp'.target.page = 1 )
        => {resp'.body[k].id : k \in DOMAIN resp'.body}
             = Satisfying(resp'.user, resp'.target) ]_vars

(* C19: under every filter combination the transaction list is in order   *)
(* of transaction date descending, and rows of equal date are in order of  *)
(* creation timestamp descending.                                          *)
C19_ListOrderedByDateThenCreation ==
    [][ ( /\ resp'.op = "transactions"
          /\ resp'.status = 200 )
        => \A k, l \in DOMAIN resp'.body :
              k < l =>
                \/ resp'.body[k].row.transaction_date
                     > resp'.body[l].row.transaction_date
                \/ /\ resp'.body[k].row.transaction_date
                        = resp'.body[l].row.transaction_date
                   /\ resp'.body[k].row.created_at
                        > resp'.body[l].row.created_at ]_vars

(* A list of two transactions of the same date was returned: the one       *)
(* created last comes first.                                               *)
C19_EqualDatesListed ==
    /\ resp.op = "transactions"
    /\ resp.status = 200
    /\ Len(resp.body) = 2
    /\ resp.body[1].row.transaction_date = resp.body[2].row.transaction_date
    /\ resp.body[1].row.created_at > resp.body[2].row.created_at

-----------------------------------------------------------------------------
(* The limit specification: the administrator and the Manager record       *)
(* income and expenses, the Manager sets spending limits, opens the        *)
(* dashboard and asks the spending check, and the days pass.               *)

LimitTxForms ==
    { TxForm("expense", 4000, <<"a">>, NullText, NullText, DaysPerMonth + 1, 1,
             <<>>, NoFile),
      TxForm("expense", 5000, <<"a">>, NullText, NullText, DaysPerMonth + 2, 2,
             <<>>, NoFile),
      TxForm("expense", 5000, <<"a">>, NullText, NullText, DaysPerMonth, 1,
             <<>>, NoFile),
      TxForm("income", 5000, <<"a">>, NullText, NullText, DaysPerMonth + 1, 1,
             <<>>, NoFile) }

LimitForm(type, amount, category_id, is_active) ==
    [type |-> type, amount |-> amount, category_id |-> category_id,
     is_active |-> is_active]

LimitForms ==
    { LimitForm("monthly", 10000, 0, TRUE),
      LimitForm("daily", 5000, 1, TRUE),
      LimitForm("monthly", 4000, 1, FALSE),
      LimitForm("monthly", 0, 0, TRUE),
      LimitForm("daily", 0 - 5000, 0, TRUE),
      LimitForm("daily", NoAmount, 1, TRUE) }

LimitAddTransaction ==
    \E u \in {1, 2}, form \in LimitTxForms :
        add_transaction(u, form, TRUE, FALSE)

AddSpendingLimit ==
    \E form \in LimitForms : add_spending_limit(2, form, TRUE, FALSE)

Dashboard == dashboard(2)

ApiSpendingCheck == \E category_id \in {0, 1} : api_spending_check(2, category_id)

NextLimit ==
    \/ LimitAddTransaction
    \/ AddSpendingLimit
    \/ Dashboard
    \/ ApiSpendingCheck
    \/ next_day

SpecLimit == Init /\ [][NextLimit]_vars

(* The first day of the period of a limit, by the calendar *)
PeriodStart(limit) ==
    IF limit.type = "monthly" THEN today - ((today - 1) % DaysPerMonth)
    ELSE today

(* Whether transaction i counts toward a limit *)
Counts(i, limit) ==
    /\ transactions[i].type = "expense"
    /\ transactions[i].user_id = limit.user_id
    /\ transactions[i].transaction_date >= PeriodStart(limit)
    /\ (limit.category_id = 0 \/ transactions[i].category_id = limit.category_id)

RECURSIVE ExpectedSpentUpTo(_, _)
(* The amounts of the counting transactions with id 1..n, added one by one *)
ExpectedSpentUpTo(n, limit) ==
    IF n = 0 THEN 0
    ELSE (IF n \in DOMAIN transactions /\ Counts(n, limit)
          THEN transactions[n].amount ELSE 0)
         + ExpectedSpentUpTo(n - 1, limit)

ExpectedSpent(limit) ==
    ExpectedSpentUpTo(IF DOMAIN transactions = {} THEN 0
                      ELSE MaxOf(DOMAIN transactions), limit)

(* C5: for every spending limit, the spent amount is the sum of the        *)
(* amounts of the expenses of the limit's user dated on or after the       *)
(* period start (today for daily, the first of the month for monthly) and, *)
(* when the limit names a category, of that category; the limit is         *)
(* exceeded exactly when that sum is strictly greater than its amount.     *)
C5_SpentIsExpenseSum ==
    \A l \in DOMAIN spending_limits :
        /\ get_spent_amount(spending_limits[l]) = ExpectedSpent(spending_limits[l])
        /\ is_exceeded(spending_limits[l])
             = (ExpectedSpent(spending_limits[l]) > spending_limits[l].amount)

(* A daily limit on category 1 with something spent, while the store also *)
(* holds a transaction that does not count toward it (an income, another   *)
(* category, another owner or an earlier day).                             *)
C5_SpentLeavesRowsOut ==
    \E l \in DOMAIN spending_limits :
        /\ spending_limits[l].type = "daily"
        /\ spending_limits[l].category_id = 1
        /\ ExpectedSpent(spending_limits[l]) > 0
        /\ \E i \in DOMAIN transactions : ~Counts(i, spending_limits[l])

(* C6: the amount of every stored spending limit is strictly positive,     *)
(* and a limit whose spent amount is 0 is never reported as exceeded,      *)
(* neither by is_exceeded nor among the alerts of the dashboard.           *)
C6_LimitAmountPositive ==
    \A l \in DOMAIN spending_limits :
        /\ spending_limits[l].amount > 0
        /\ ExpectedSpent(spending_limits[l]) = 0
             => /\ ~is_exceeded(spending_limits[l])
                /\ \A k \in DOMAIN dashboard_alerts(spending_limits[l].user_id) :
                      dashboard_alerts(spending_limits[l].user_id)[k].limit # l

(* A limit form whose amount is 0, negative or missing has just been       *)
(* refused while the store holds an active limit with nothing spent.       *)
C6_ZeroAmountRefused ==
    /\ resp.op = "add_spending_limit"
    /\ resp.target = 0
    /\ \E l \in DOMAIN spending_limits :
          /\ spending_limits[l].is_active
          /\ ExpectedSpent(spending_limits[l]) = 0

(* The limits for which an alert is due: active, and more than 80% spent *)
AlertDue(u, S) ==
    {l \in S : /\ spending_limits[l].user_id = u
               /\ spending_limits[l].is_active
               /\ 10 * ExpectedSpent(spending_limits[l])
                    > 8 * spending_limits[l].amount}

(* C7: the dashboard and the spending check both raise an alert for an     *)
(* active limit exactly when the spent amount is strictly greater than     *)
(* 0.8 times the limit amount.                                             *)
C7_AlertAboveEightyPercent ==
    [][ ( /\ resp'.op \in {"dashboard", "api_spending_check"}
          /\ today' = today )
        => /\ resp'.status = 200
           /\ {resp'.body[k].limit : k \in DOMAIN resp'.body}
                = IF resp'.op = "dashboard"
                  THEN AlertDue(resp'.user, DOMAIN spending_limits)
                  ELSE AlertDue(resp'.user,
                                {l \in DOMAIN spending_limits :
                                    spending_limits[l].category_id
                                      = resp'.target}) ]_vars

-----------------------------------------------------------------------------
(* The report specification: the administrator and the Manager record      *)
(* transactions and the three accounts ask for PDF and Excel reports.      *)

ReportTxForms ==
    { TxForm("income", 50000, <<"a">>, NullText, NullText, DaysPerMonth + 1, 7,
             <<>>, NoFile),
      TxForm("income", 30000, <<"b">>, NullText, NullText, DaysPerMonth, 7,
             <<>>, NoFile),
      TxForm("expense", 20000, <<"a">>, NullText, NullText, DaysPerMonth + 1, 1,
             <<>>, NoFile),
      TxForm("expense", 60005, <<"b">>, NullText, NullText, DaysPerMonth + 1, 1,
             <<>>, NoFile) }

ReportForm(start_date, end_date, user_id, category_id, type, format) ==
    [start_date |-> start_date, end_date |-> end_date, user_id |-> user_id,
     category_id |-> category_id, type |-> type, format |-> format]

ReportForms ==
    { ReportForm(d1, DaysPerMonth + 1, user_id, 0, type, format) :
        d1 \in {1, DaysPerMonth + 1},
        user_id \in {0, 2},
        type \in {"", "expense"},
        format \in {"pdf", "excel"} }
    \cup { ReportForm(NoDate, DaysPerMonth + 1, 0, 0, "", "pdf"),
           ReportForm(1, DaysPerMonth + 1, 0, 1, "", "excel") }

ReportAddTransaction ==
    \E u \in {1, 2}, form \in ReportTxForms :
        add_transaction(u, form, TRUE, FALSE)

Reports ==
    \E u \in DOMAIN users, form \in ReportForms : reports(u, form)

NextReport ==
    \/ ReportAddTransaction
    \/ Reports

SpecReport == Init /\ [][NextReport]_vars

(* The number a formatted currency text reads as, in cents *)
ParseCurrency(text) ==
    (IF text.negative THEN 0 - 1 ELSE 1) * (100 * text.units + text.cents)

(* The three totals of a sequence of rows, each type summed over the       *)
(* positions of the sequence taken as a set                                *)
ExpectedSummary(rows) ==
    LET of(type) == {k \in DOMAIN rows : rows[k].type = type}
        income == SumOver([k \in of("income") |-> rows[k].amount],
                          of("income"))
        expense == SumOver([k \in of("expense") |-> rows[k].amount],
                           of("expense"))
    IN [total_income |-> income, total_expense |-> expense,
        net_amount |-> income - expense]

(* C8: for the rows of every report, in the order the query gave them and  *)
(* in every other order, the summary of the PDF, read back from its        *)
(* formatted texts, and the summary of the Excel workbook carry the same   *)
(* total income, total expense and net amount: the sums of the income      *)
(* amounts, of the expense amounts, and their difference.                  *)
C8_ReportSummariesAgree ==
    (resp.op = "reports" /\ resp.status = 200 /\ resp.body # <<>>) =>
        LET listed == resp.body[1].rows
            rows == [k \in DOMAIN listed |-> listed[k].row]
            shown == resp.body[1].summary
        IN /\ IF resp.body[1].format = "pdf"
              THEN [f \in DOMAIN shown |-> ParseCurrency(shown[f])]
                     = ExpectedSummary(rows)
              ELSE shown = ExpectedSummary(rows)
           /\ \A order \in Permutations(DOMAIN rows) :
                 LET shuffled == [k \in DOMAIN rows |-> rows[order[k]]]
                     pdf == pdf_summary(shuffled)
                 IN /\ [f \in DOMAIN pdf |-> ParseCurrency(pdf[f])]
                         = ExpectedSummary(rows)
                    /\ excel_summary(shuffled) = ExpectedSummary(rows)

(* A PDF report over an income and a larger expense: the net amount is     *)
(* negative.                                                               *)
C8_ReportWithBothTypes ==
    /\ resp.op = "reports"
    /\ resp.status = 200
    /\ resp.body # <<>>
    /\ resp.body[1].format = "pdf"
    /\ Len(resp.body[1].rows) = 2
    /\ resp.body[1].summary.net_amount.negative
    /\ resp.body[1].summary.total_income.units > 0

-----------------------------------------------------------------------------
(* The access specification: the administrator, the Manager and the        *)
(* Viewer each try every operation that changes stored data.               *)

Dan == <<"d", "a", "n">>

AccessTxForm ==
    TxForm("expense", 500, <<"a">>, NullText, NullText, DaysPerMonth + 1, 1,
           <<>>, <<"scan", "PDF">>)

AccessEditForm ==
    TxForm("expense", 500, <<"a">>, NullText, NullText, DaysPerMonth + 1, 1,
           <<>>, NoFile)

CategoryForms == { [name |-> <<"Travel">>], [name |-> <<>>] }

RegistrationForms ==
    { [username |-> Dan, email |-> <<"d", "x.org">>, password |-> "secret",
       password2 |-> "secret", role_id |-> 3],
      [username |-> Bob, email |-> <<"d", "x.org">>, password |-> "short",
       password2 |-> "short", role_id |-> 3] }

AccessAddTransaction ==
    \E u \in sessions : add_transaction(u, AccessTxForm, TRUE, FALSE)

AccessEditTransaction ==
    \E u \in sessions, id \in 1..MaxTx :
        edit_transaction(u, id, AccessEditForm, TRUE, FALSE)

AccessDeleteTransaction ==
    \E u \in sessions, id \in 1..MaxTx :
        delete_transaction(u, id, {}, TRUE, FALSE)

AccessDeleteReceipt ==
    \E u \in sessions, id \in 1..MaxFiles :
        delete_receipt(u, id, TRUE, TRUE, FALSE)

AddCategory ==
    \E u \in sessions, form \in CategoryForms :
        add_category(u, form, TRUE, FALSE)

AccessAddSpendingLimit ==
    add_spending_limit(3, LimitForm("monthly", 10000, 0, TRUE), TRUE, FALSE)

Register ==
    \E u \in sessions, form \in RegistrationForms :
        register(u, form, TRUE, FALSE)

EditUser ==
    \E u \in sessions :
        \E form \in {[username |-> Dan, email |-> <<"d", "x.org">>,
                       password |-> "", role_id |-> 2, is_active |-> TRUE]} :
            edit_user(u, MaxUsers, form, TRUE, FALSE)

DeleteUser ==
    \E u \in sessions, id \in {1, MaxUsers} : delete_user(u, id, TRUE, FALSE)

NextAccess ==
    \/ AccessAddTransaction
    \/ AccessEditTransaction
    \/ AccessDeleteTransaction
    \/ AccessDeleteReceipt
    \/ AddCategory
    \/ AccessAddSpendingLimit
    \/ Register
    \/ EditUser
    \/ DeleteUser

SpecAccess == Init /\ [][NextAccess]_vars

(* The action each handler that changes stored data checks, by the claim: *)
(* no action is named for add_spending_limit.                              *)
CheckedAction(op) ==
    CASE op \in {"add_transaction", "add_category"} -> {"create"}
      [] op \in {"edit_transaction", "delete_receipt"} -> {"update"}
      [] op = "delete_transaction" -> {"delete"}
      [] op \in {"register", "edit_user", "delete_user"} -> {"manage_users"}
      [] OTHER -> {}

(* C4: every operation that changes stored data (add, edit or delete a     *)
(* transaction, delete a receipt, add a category, add a spending limit,    *)
(* register, edit or deactivate a user) checks the requester's permission  *)
(* before any change: a requester whose role does not grant the checked    *)
(* action, and a Viewer for each of these operations, gets the forbidden   *)
(* outcome (or not-found for a missing target) and the stored data is what *)
(* it was.                                                                 *)
C4_MutationsNeedPermission ==
    [][ ( /\ resp'.op \in {"add_transaction", "edit_transaction",
                           "delete_transaction", "delete_receipt",
                           "add_category", "add_spending_limit", "register",
                           "edit_user", "delete_user"}
          /\ \/ RoleOf(resp'.user) = "Viewer"
             \/ \E permission \in CheckedAction(resp'.op) :
                    ~has_permission(resp'.user, permission) )
        => /\ resp'.status \in {403, 404}
           /\ UNCHANGED <<roles, users, categories, tags, transactions,
                          receipts, files, spending_limits>> ]_vars

(* The owner of the target of a request on a transaction or a receipt *)
OwnerOf(op, target) ==
    IF op = "delete_receipt"
    THEN transactions[receipts[target].transaction_id].user_id
    ELSE transactions[target].user_id

(* C27: a requester without manage_users who asks edit_transaction,        *)
(* delete_transaction or delete_receipt on a transaction or receipt of     *)
(* another user is refused (403), and the transactions with their tags,    *)
(* the tags, the receipts and the stored files are unchanged.              *)
C27_OthersDataUntouched ==
    [][ ( /\ resp'.op \in {"edit_transaction", "delete_transaction",
                           "delete_receipt"}
          /\ resp'.target \in
               (IF resp'.op = "delete_receipt" THEN DOMAIN receipts
                ELSE DOMAIN transactions)
          /\ ~has_permission(resp'.user, "manage_users")
          /\ OwnerOf(resp'.op, resp'.target) # resp'.user )
        => /\ resp'.status = 403
           /\ UNCHANGED <<transactions, tags, receipts, files>> ]_vars

(* The Manager, who may update, was refused the deletion of a receipt of   *)
(* a transaction of the administrator; the receipt and its file are there. *)
C27_ManagerRefusedOnOthersReceipt ==
    /\ resp.op = "delete_receipt"
    /\ resp.status = 403
    /\ resp.target \in DOMAIN receipts
    /\ has_permission(resp.user, "update")
    /\ ~has_permission(resp.user, "manage_users")
    /\ OwnerOf("delete_receipt", resp.target) # resp.user
    /\ receipts[resp.target].filename \in files

-----------------------------------------------------------------------------
(* The upload specification: the Manager adds and edits transactions whose *)
(* fields are valid, with no upload and with uploads of several            *)
(* extensions.                                                             *)

Uploads ==
    { NoFile, <<"scan", "PDF">>, <<"pic", "jpeg">>, <<"photo", "Gif">>,
      <<"tool", "exe">>, <<"README">> }

UploadForms ==
    { TxForm("expense", 500, <<"a">>, NullText, <<>>, DaysPerMonth + 1, 1,
             <<"">>, file) : file \in Uploads }
    \cup
    { TxForm("income", 300, <<"b">>, NullText, <<>>, DaysPerMonth, 7,
             <<"">>, file) : file \in Uploads }

UploadAdd ==
    \E form \in UploadForms : add_transaction(2, form, TRUE, FALSE)

UploadEdit ==
    \E id \in 1..MaxTx, form \in UploadForms :
        edit_transaction(2, id, form, TRUE, FALSE)

NextUpload ==
    \/ UploadAdd
    \/ UploadEdit

SpecUpload == Init /\ [][NextUpload]_vars

(* The extension of an upload's name, lower case; "" when it has none *)
Extension(file) ==
    IF Len(file) >= 2 THEN Lower(file[Len(file)]) ELSE ""

(* The fields of the row that a form sets *)
FieldsStored(row, form) ==
    /\ row.type = form.type
    /\ row.amount = form.amount
    /\ row.description = form.description
    /\ row.transaction_date = form.transaction_date
    /\ row.category_id = form.category_id

(* C12: an add_transaction or edit_transaction request whose fields are    *)
(* valid and whose upload has an extension that is not allowed (none of    *)
(* pdf, png, jpg, jpeg, gif) is not an error: it ends with the redirect,   *)
(* the transaction is created or updated, and no receipt record and no     *)
(* file are added.                                                         *)
C12_DisallowedUploadSkipped ==
    [][ \A form \in UploadForms :
          ( /\ form.receipts # NoFile
            /\ Extension(form.receipts)
                  \notin {"pdf", "png", "jpg", "jpeg", "gif"} )
          => /\ add_transaction(2, form, TRUE, FALSE)
                  => /\ resp'.status = 302
                     /\ resp'.error = ""
                     /\ resp'.target \in DOMAIN transactions' \ DOMAIN transactions
                     /\ FieldsStored(transactions'[resp'.target], form)
                     /\ receipts' = receipts
                     /\ files' = files
             /\ \A id \in DOMAIN transactions :
                  edit_transaction(2, id, form, TRUE, FALSE)
                  => /\ resp'.status = 302
                     /\ resp'.error = ""
                     /\ FieldsStored(transactions'[id], form)
                     /\ receipts' = receipts
                     /\ files' = files ]_vars

(* C13: the upload of a valid add_transaction or edit_transaction request  *)
(* is accepted, one receipt record and one stored file more, exactly when  *)
(* its extension, letter case ignored, is one of pdf, png, jpg, jpeg, gif. *)
C13_UploadAcceptedByExtension ==
    [][ \A form \in UploadForms :
          form.receipts # NoFile
          => \A id \in {0} \cup DOMAIN transactions :
               ( IF id = 0
                 THEN add_transaction(2, form, TRUE, FALSE)
                 ELSE edit_transaction(2, id, form, TRUE, FALSE) )
               => ( Extension(form.receipts)
                      \in {"pdf", "png", "jpg", "jpeg", "gif"}
                    <=> /\ Cardinality(DOMAIN receipts')
                             = Cardinality(DOMAIN receipts) + 1
                        /\ Cardinality(files') = Cardinality(files) + 1 )
      ]_vars

-----------------------------------------------------------------------------
(* The audit specification: the Manager signs out and in again, the        *)
(* Manager and the Viewer ask to add and delete transactions, and every    *)
(* write of an audit entry succeeds or fails.                              *)

AuditTxForms ==
    { TxForm("expense", 500, <<"a">>, NullText, <<>>, DaysPerMonth + 1, 1,
             <<"">>, NoFile),
      TxForm("expense", 0, <<"a">>, NullText, <<>>, DaysPerMonth + 1, 1,
             <<"">>, NoFile) }

AuditUsers == {2, 3}

(* The login page answers a client that is not signed in *)
AuditLogin ==
    \E password \in {"secret", "short"}, audit_ok \in BOOLEAN :
        /\ 2 \notin sessions
        /\ login(Bob, password, audit_ok)

AuditLogout == \E audit_ok \in BOOLEAN : logout(2, audit_ok)

AuditLogoutUser == logout_user(2)

AuditAddTransaction ==
    \E u \in AuditUsers, form \in AuditTxForms, commit_ok, audit_ok \in BOOLEAN :
        add_transaction(u, form, commit_ok, audit_ok)

AuditDeleteTransaction ==
    \E u \in AuditUsers, id \in 1..MaxTx, audit_ok \in BOOLEAN :
        delete_transaction(u, id, {}, TRUE, audit_ok)

NextAudit ==
    \/ AuditLogin
    \/ AuditLogout
    \/ AuditLogoutUser
    \/ AuditAddTransaction
    \/ AuditDeleteTransaction

SpecAudit == Init /\ [][NextAudit]_vars

EffectPresent(entry, signed_in, rows) ==
    CASE entry.action = "login" -> entry.user_id \in signed_in
      [] entry.action = "logout" -> entry.user_id \notin signed_in
      [] entry.action = "create_transaction" ->
            /\ entry.record_id \in DOMAIN rows
            /\ rows[entry.record_id].user_id = entry.user_id
      [] entry.action = "delete_transaction" ->
            entry.record_id \notin DOMAIN rows
      [] OTHER -> TRUE

(* C15: an audit entry is written only after the effect of the operation   *)
(* it names (the commit, the session established, the session ended): at   *)
(* the moment an entry is written that effect is already there. A step     *)
(* writes at most one entry, and a request that is rejected, fails         *)
(* validation or fails writes none.                                        *)
C15_AuditWrittenAfterEffect ==
    [][ /\ Len(audit_logs') \in {Len(audit_logs), Len(audit_logs) + 1}
        /\ Len(audit_logs') = Len(audit_logs) + 1
             => EffectPresent(audit_logs'[Len(audit_logs')], sessions',
                              transactions')
        /\ ( resp' # resp /\ resp'.status # 302 )
             => audit_logs' = audit_logs ]_vars

(* C16: the audit log is append-only: every entry that exists before a     *)
(* step exists unchanged, at the same place, after it, so the log only     *)
(* grows.                                                                  *)
C16_AuditLogAppendOnly ==
    [][ /\ Len(audit_logs') >= Len(audit_logs)
        /\ SubSeq(audit_logs', 1, Len(audit_logs)) = audit_logs ]_vars

(* The audit log holds two entries, the second written by a later request  *)
(* than the first.                                                         *)
C16_SecondEntryAppended ==
    /\ Len(audit_logs) = MaxAudit
    /\ audit_logs[1].action = "create_transaction"
    /\ audit_logs[MaxAudit].action = "delete_transaction"
    /\ resp.op = "delete_transaction"

-----------------------------------------------------------------------------
(* The deactivation specification: the Manager records a transaction with  *)
(* a receipt and sets a spending limit, and the administrator and the      *)
(* Manager ask to delete the accounts.                                     *)

DeactivationTxForms ==
    { TxForm("expense", 500, <<"a">>, NullText, <<>>, DaysPerMonth + 1, 1,
             <<"a">>, <<"scan", "PDF">>) }

DeactivationLimitForms == { LimitForm("monthly", 10000, 0, TRUE) }

DeactivationAddTransaction ==
    \E form \in DeactivationTxForms, audit_ok \in BOOLEAN :
        add_transaction(2, form, TRUE, audit_ok)

DeactivationAddSpendingLimit ==
    \E form \in DeactivationLimitForms, audit_ok \in BOOLEAN :
        add_spending_limit(2, form, TRUE, audit_ok)

DeactivationDeleteUser ==
    \E u \in {1, 2}, id \in 1..MaxUsers, commit_ok, audit_ok \in BOOLEAN :
        delete_user(u, id, commit_ok, audit_ok)

NextDeactivation ==
    \/ DeactivationAddTransaction
    \/ DeactivationAddSpendingLimit
    \/ DeactivationDeleteUser

SpecDeactivation == Init /\ [][NextDeactivation]_vars

(* C11: delete_user removes no user record: after the request the users    *)
(* are those of before, each unchanged except that the target, when the    *)
(* request is carried out, has its active flag false; the transactions,    *)
(* the receipts and their files, the spending limits, and every audit      *)
(* entry that existed before the request are unchanged.                    *)
C11_DeleteUserOnlyDeactivates ==
    [][ resp'.op = "delete_user"
        => /\ DOMAIN users' = DOMAIN users
           /\ \A i \in DOMAIN users :
                 \/ users'[i] = users[i]
                 \/ /\ i = resp'.target
                    /\ users'[i] = [users[i] EXCEPT !.is_active = FALSE]
           /\ ( resp'.status = 302 /\ resp'.target # resp'.user )
                 => ~users'[resp'.target].is_active
           /\ UNCHANGED <<transactions, receipts, files, spending_limits>>
           /\ Len(audit_logs') >= Len(audit_logs)
           /\ SubSeq(audit_logs', 1, Len(audit_logs)) = audit_logs ]_vars

(* The administrator deactivated the Manager, who owns a transaction with  *)
(* a receipt and a stored file, a spending limit and an audit entry: the   *)
(* record of the Manager is still there, inactive, with all of them.       *)
C11_OwnerDeactivated ==
    /\ resp.op = "delete_user"
    /\ resp.status = 302
    /\ resp.target = 2
    /\ ~users[2].is_active
    /\ \E t \in DOMAIN transactions :
           /\ transactions[t].user_id = 2
           /\ \E r \in ReceiptsOf(t) : receipts[r].filename \in files
    /\ \E l \in DOMAIN spending_limits : spending_limits[l].user_id = 2
    /\ \E k \in DOMAIN audit_logs : audit_logs[k].user_id = 2

-----------------------------------------------------------------------------
(* The accounts specification: the administrator registers accounts and    *)
(* edits the Viewer's account, the Manager and the Viewer update their     *)
(* profiles, and the requests run concurrently: between the validation of  *)
(* a register or edit_user request and its commit, others commit.          *)

AccountForms ==
    { [username |-> Dan, email |-> <<"d", "x.org">>, password |-> "secret",
       password2 |-> "secret", role_id |-> 3, is_active |-> TRUE],
      [username |-> Dan, email |-> <<"n", "x.org">>, password |-> "secret",
       password2 |-> "secret", role_id |-> 3, is_active |-> TRUE],
      [username |-> Bob, email |-> <<"d", "x.org">>, password |-> "secret",
       password2 |-> "secret", role_id |-> 3, is_active |-> TRUE] }

ProfileForms ==
    { [email |-> <<"d", "x.org">>], [email |-> <<"e", "x.org">>],
      [email |-> <<"b">>] }

NextAccounts ==
    \/ \E form \in AccountForms : register_validate(1, form)
    \/ \E r \in inflight, commit_ok \in BOOLEAN :
           register_commit(r, commit_ok, FALSE)
    \/ \E form \in AccountForms : edit_user_validate(1, 3, form)
    \/ \E r \in inflight, commit_ok \in BOOLEAN :
           edit_user_commit(r, commit_ok, FALSE)
    \/ \E u \in {2, 3}, form \in ProfileForms, commit_ok \in BOOLEAN :
           profile(u, form, commit_ok, FALSE)

SpecAccounts == Init /\ [][NextAccounts]_vars

(* No two user records share a username, and no two share an email *)
NoDuplicateUsers ==
    \A i, j \in DOMAIN users :
        i # j => /\ users[i].username # users[j].username
                 /\ users[i].email # users[j].email

(* C17: whatever register, edit_user and profile requests ran, also        *)
(* concurrently, no two user records share a username and no two share an  *)
(* email; and a request whose commit would create a duplicate stores       *)
(* nothing: it does not end with the redirect and the users are unchanged. *)
C17_UniqueUsernameAndEmail ==
    /\ []NoDuplicateUsers
    /\ [][ /\ \A u \in {2, 3}, form \in ProfileForms :
                 ( /\ \E i \in DOMAIN users \ {u} : users[i].email = form.email
                   /\ profile(u, form, TRUE, FALSE) )
                 => /\ resp'.status # 302
                    /\ users' = users
           /\ \A r \in inflight :
                 ( /\ \E i \in DOMAIN users \ {r.target} :
                          \/ users[i].username = r.form.username
                          \/ users[i].email = r.form.email
                   /\ \/ register_commit(r, TRUE, FALSE)
                      \/ edit_user_commit(r, TRUE, FALSE) )
                 => /\ resp'.status # 302
                    /\ users' = users ]_vars

(* A register request that passed its validators was refused at its       *)
(* commit, because a request that committed in between gave its username   *)
(* to another account; the users table had room for the new account.       *)
C17_DuplicateRefusedAtCommit ==
    /\ resp.op = "register"
    /\ resp.status = 500
    /\ resp.error = "IntegrityError"
    /\ \E i \in DOMAIN users : users[i].username = Dan
    /\ Len(users) < MaxUsers

-----------------------------------------------------------------------------
(* The backup specification: the Manager records transactions with tags    *)
(* and sets a spending limit, the administrator adds a category and        *)
(* changes the Manager's role, and the three accounts ask for the backup.  *)

BackupTxForms ==
    { TxForm("expense", 500, <<"a">>, NullText, <<>>, DaysPerMonth + 1, 1,
             <<"a", " b">>, NoFile),
      TxForm("income", 300, <<"b">>, NullText, <<>>, DaysPerMonth, 7,
             <<"b">>, NoFile) }

NextBackup ==
    \/ \E form \in BackupTxForms : add_transaction(2, form, TRUE, FALSE)
    \/ \E id \in 1..MaxTx : delete_transaction(2, id, {}, TRUE, FALSE)
    \/ \E form \in DeactivationLimitForms : add_spending_limit(2, form, TRUE, FALSE)
    \/ \E form \in CategoryForms : add_category(1, form, TRUE, FALSE)
    \/ ChangeRole
    \/ \E u \in DOMAIN users : backup(u)

SpecBackup == Init /\ [][NextBackup]_vars

(* The ids of the entries of one list of the backup *)
EntryIds(entries) == {entries[k].id : k \in DOMAIN entries}

(* C21: the backup is given only to a requester with the backup            *)
(* permission, anyone else is refused (403) with no content; it holds one  *)
(* entry for every stored user, transaction (with the names of its tags),  *)
(* category, tag and spending limit and for nothing else; and no entry of  *)
(* it has a password hash: a user entry has no password_hash key, and     *)
(* each of its keys carries the user's field of that name.                 *)
C21_BackupContent ==
    [][ resp'.op = "backup"
        => IF ~has_permission(resp'.user, "backup")
           THEN resp'.status = 403 /\ resp'.body = <<>>
           ELSE /\ resp'.status = 200
                /\ EntryIds(resp'.body.users) = DOMAIN users
                /\ Len(resp'.body.users) = Len(users)
                /\ \A k \in DOMAIN resp'.body.users :
                      LET e == resp'.body.users[k]
                      IN /\ "password_hash" \notin DOMAIN e
                         /\ \A key \in DOMAIN e \ {"id"} :
                               /\ key \in DOMAIN users[e.id]
                               /\ e[key] = users[e.id][key]
                /\ EntryIds(resp'.body.transactions) = DOMAIN transactions
                /\ \A k \in DOMAIN resp'.body.transactions :
                      LET e == resp'.body.transactions[k]
                      IN /\ e.amount = transactions[e.id].amount
                         /\ e.user_id = transactions[e.id].user_id
                         /\ e.tags = {tags[t] : t \in transactions[e.id].tags}
                /\ EntryIds(resp'.body.categories) = DOMAIN categories
                /\ Len(resp'.body.categories) = Len(categories)
                /\ EntryIds(resp'.body.tags) = DOMAIN tags
                /\ Len(resp'.body.tags) = Len(tags)
                /\ EntryIds(resp'.body.spending_limits) = DOMAIN spending_limits
                /\ Len(resp'.body.spending_limits) = Len(spending_limits)
      ]_vars

(* The administrator got a backup of a store that holds a tagged           *)
(* transaction, a spending limit and an added category.                    *)
C21_BackupOfFilledStore ==
    /\ resp.op = "backup"
    /\ resp.status = 200
    /\ \E k \in DOMAIN resp.body.transactions :
           resp.body.transactions[k].tags = {"a", "b"}
    /\ Len(resp.body.spending_limits) > 0
    /\ Len(resp.body.categories) > Len(default_categories)
    /\ Len(resp.body.users) = Len(users)

-----------------------------------------------------------------------------
(* The fields specification: the Manager submits add and edit forms whose  *)
(* type, amount and category are valid or not, and the administrator adds  *)
(* a category, the tenth.                                                  *)

FieldForms ==
    { TxForm(type, amount, <<"a">>, NullText, <<>>, DaysPerMonth + 1,
             category_id, <<"">>, NoFile) :
        type \in {"income", "expense", "transfer", ""},
        amount \in {300, 0, 0 - 500, NoAmount},
        category_id \in {0, 7, MaxCategories} }

NextFields ==
    \/ \E form \in FieldForms : add_transaction(2, form, TRUE, FALSE)
    \/ \E id \in 1..MaxTx, form \in FieldForms :
           edit_transaction(2, id, form, TRUE, FALSE)
    \/ \E form \in CategoryForms : add_category(1, form, TRUE, FALSE)

SpecFields == Init /\ [][NextFields]_vars

(* C23: every stored transaction has type income or expense, an amount     *)
(* above 0, an owner that is an existing user and one category, an         *)
(* existing one; whatever add_transaction and edit_transaction were asked. *)
C23_StoredTransactionsValid ==
    \A i \in DOMAIN transactions :
        /\ transactions[i].type \in {"income", "expense"}
        /\ transactions[i].amount > 0
        /\ transactions[i].user_id \in DOMAIN users
        /\ transactions[i].category_id # 0
        /\ transactions[i].category_id \in DOMAIN categories

(* An edit form was refused (the page is shown again) while the store      *)
(* holds a transaction of the added category and one of a seeded category. *)
C23_InvalidEditRefused ==
    /\ resp.op = "edit_transaction"
    /\ resp.status = 200
    /\ \E i, j \in DOMAIN transactions :
           /\ transactions[i].category_id = Len(default_categories) + 1
           /\ transactions[j].category_id = 7

-----------------------------------------------------------------------------
(* The seeding specification: the process starts on the empty database     *)
(* that db.create_all() made and starts again at any later time; in        *)
(* between the administrator signs in, registers an account, renames the   *)
(* admin account, deactivates an account and adds a category.              *)

Created ==
    /\ roles = <<>>
    /\ users = <<>>
    /\ sessions = {}
    /\ categories = <<>>
    /\ tags = <<>>
    /\ transactions = <<>>
    /\ receipts = <<>>
    /\ files = {}
    /\ spending_limits = <<>>
    /\ audit_logs = <<>>
    /\ today = DaysPerMonth + 1
    /\ resp = NoResponse
    /\ probe = NoProbe
    /\ inflight = {}

RenameForms ==
    { [username |-> Dan, email |-> admin_user.email, password |-> "",
       role_id |-> 1, is_active |-> TRUE],
      [username |-> Dan, email |-> <<"d", "x.org">>, password |-> "",
       role_id |-> 1, is_active |-> TRUE],
      [username |-> Admin, email |-> <<"d", "x.org">>, password |-> "",
       role_id |-> 1, is_active |-> TRUE] }

NextSeed ==
    \/ create_app
    \/ \E audit_ok \in BOOLEAN : login(Admin, "admin123", audit_ok)
    \/ \E form \in RegistrationForms : register(1, form, TRUE, FALSE)
    \/ \E form \in RenameForms : edit_user(1, 1, form, TRUE, FALSE)
    \/ delete_user(1, 2, TRUE, FALSE)
    \/ \E form \in CategoryForms : add_category(1, form, TRUE, FALSE)

SpecSeed == Created /\ [][NextSeed]_vars

(* C25: the seeding is idempotent. It creates the roles, the admin account *)
(* and the categories only when they are absent: on a store that holds     *)
(* roles, an account named admin and categories it adds and changes        *)
(* nothing; and the store a start leaves is one that another start right   *)
(* after it leaves as it is.                                               *)
C25_SeedingIdempotent ==
    [][ resp'.op = "create_app"
        => /\ ( /\ roles # <<>>
                /\ \E i \in DOMAIN users : users[i].username = Admin
                /\ categories # <<>> )
              => UNCHANGED store
           /\ resp'.status # 500
              => /\ seed_roles(roles') = roles'
                 /\ seed_admin(roles', users') = users'
                 /\ seed_categories(categories') = categories'
           /\ roles # <<>> => roles' = roles
           /\ categories # <<>> => categories' = categories
           /\ \A i \in DOMAIN users : i \in DOMAIN users' /\ users'[i] = users[i]
      ]_vars

(* The process started again on a store that holds the seeded records, a   *)
(* registered account and an added category: nothing was added.            *)
C25_RestartedOnFilledStore ==
    /\ resp.op = "create_app"
    /\ resp.status = 0
    /\ roles = default_roles
    /\ Len(users) = 2
    /\ users[1].username = Admin
    /\ Len(categories) = Len(default_categories) + 1

-----------------------------------------------------------------------------
(* The ownership specification: the administrator and the Manager add,     *)
(* edit and delete transactions and receipts, their own and each other's.  *)

OwnerTxForms ==
    { TxForm("expense", 500, <<"a">>, NullText, <<>>, DaysPerMonth + 1, 1,
             <<"a", " b">>, <<"scan", "PDF">>) }

OwnerEditForms ==
    { TxForm("expense", 700, <<"c">>, NullText, <<>>, DaysPerMonth + 1, 1,
             <<"a">>, NoFile),
      TxForm("income", 300, <<"b">>, NullText, <<>>, DaysPerMonth, 7,
             <<"c">>, NoFile) }

Owners == {1, 2}

NextOwner ==
    \/ \E u \in Owners, form \in OwnerTxForms :
           add_transaction(u, form, TRUE, FALSE)
    \/ \E u \in Owners, id \in 1..MaxTx, form \in OwnerEditForms :
           edit_transaction(u, id, form, TRUE, FALSE)
    \/ \E u \in Owners, id \in 1..MaxTx :
           delete_transaction(u, id, {}, TRUE, FALSE)
    \/ \E u \in Owners, id \in 1..MaxFiles :
           delete_receipt(u, id, TRUE, TRUE, FALSE)

SpecOwner == Init /\ [][NextOwner]_vars

(* C28: the owner of a transaction is the user whose add_transaction      *)
(* stored it, and no step changes the owner of a stored transaction: an    *)
(* edit_transaction, the administrator's on another user's transaction     *)
(* included, leaves user_id as it was.                                     *)
C28_OwnerFixedAtCreation ==
    [][ /\ (resp'.op = "add_transaction" /\ resp'.status = 302)
           => /\ resp'.target \notin DOMAIN transactions
              /\ resp'.target \in DOMAIN transactions'
              /\ transactions'[resp'.target].user_id = resp'.user
        /\ \A id \in DOMAIN transactions \cap DOMAIN transactions' :
               transactions'[id].user_id = transactions[id].user_id
        /\ (resp'.op = "edit_transaction" /\ resp'.status = 302)
           => /\ resp'.target \in DOMAIN transactions
              /\ transactions'[resp'.target].user_id
                   = transactions[resp'.target].user_id ]_vars

(* The administrator has edited a transaction of the Manager: the amount   *)
(* is the submitted one and the Manager still owns it.                     *)
C28_AdminEditedManagersTransaction ==
    /\ resp.op = "edit_transaction"
    /\ resp.status = 302
    /\ has_permission(resp.user, "manage_users")
    /\ resp.target \in DOMAIN transactions
    /\ transactions[resp.target].user_id # resp.user
    /\ transactions[resp.target].amount = 700

(* C26: delete_transaction and edit_transaction remove no Tag record and  *)
(* change the tag set of no transaction other than the targeted one.       *)
C26_TagsSharedNotOwned ==
    [][ resp'.op \in {"delete_transaction", "edit_transaction"}
        => /\ \A t \in DOMAIN tags :
                  t \in DOMAIN tags' /\ tags'[t] = tags[t]
           /\ \A id \in DOMAIN transactions \ {resp'.target} :
                  /\ id \in DOMAIN transactions'
                  /\ transactions'[id].tags = transactions[id].tags ]_vars

(* A transaction was deleted while another one carries tags, and a Tag     *)
(* record that no transaction carries any more is still stored.            *)
C26_TagOutlivesItsTransactions ==
    /\ resp.op = "delete_transaction"
    /\ resp.status = 302
    /\ \E id \in DOMAIN transactions : transactions[id].tags # {}
    /\ \E t \in DOMAIN tags :
           \A id \in DOMAIN transactions : t \notin transactions[id].tags

-----------------------------------------------------------------------------
(* The login specification: the Manager and the Viewer log out and in      *)
(* while the administrator deactivates and edits their accounts.           *)

LoginUsers == {2, 3}

Passwords == {"secret", "wrong"}

ActivationForms(id) ==
    { [username |-> users[id].username, email |-> users[id].email,
       password |-> "", role_id |-> users[id].role_id, is_active |-> a] :
      a \in BOOLEAN }

NextLogin ==
    \/ \E id \in LoginUsers, password \in Passwords, audit_ok \in BOOLEAN :
           login(users[id].username, password, audit_ok)
    \/ \E u \in LoginUsers : logout(u, FALSE)
    \/ \E u \in LoginUsers : logout_user(u)
    \/ \E id \in LoginUsers : delete_user(1, id, TRUE, FALSE)
    \/ \E id \in LoginUsers :
           \E form \in ActivationForms(id) : edit_user(1, id, form, TRUE, FALSE)

SpecLogin == Init /\ [][NextLogin]_vars

(* C29: a login with the correct username and password of a user who is    *)
(* not active is refused: the form is shown again, no session is           *)
(* established and no audit entry is written; and a user who is not active *)
(* becomes active only by an edit_user request.                            *)
C29_DeactivatedLoginRefused ==
    [][ /\ \A id \in DOMAIN users, audit_ok \in BOOLEAN :
               ( /\ ~users[id].is_active
                 /\ login(users[id].username, users[id].password_hash[2],
                          audit_ok) )
               => /\ resp'.status = 200
                  /\ UNCHANGED <<sessions, audit_logs>>
        /\ \A id \in DOMAIN users :
               (~users[id].is_active /\ users'[id].is_active)
               => resp'.op = "edit_user" /\ resp'.target = id ]_vars

(* A deactivated user who had logged out asked to log in with the right    *)
(* password and has no session.                                            *)
C29_DeactivatedLoginAttempt ==
    /\ resp.op = "login"
    /\ resp.status = 200
    /\ resp.user \in DOMAIN users
    /\ ~users[resp.user].is_active
    /\ resp.user \notin sessions

-----------------------------------------------------------------------------
(* The report input specification: the administrator and the Manager       *)
(* record transactions, and the Manager and the Viewer ask for reports     *)
(* with every value of the user filter.                                    *)

InputTxForms ==
    { TxForm("income", 50000, <<"a">>, NullText, NullText, DaysPerMonth + 1, 7,
             <<>>, NoFile),
      TxForm("expense", 20000, <<"b">>, NullText, NullText, DaysPerMonth, 1,
             <<>>, NoFile) }

InputForms ==
    { ReportForm(d1, DaysPerMonth + 1, user_id, 0, type, format) :
        d1 \in {1, DaysPerMonth + 1},
        user_id \in {0, 1, 2},
        type \in {"", "expense"},
        format \in {"pdf", "excel"} }

NextInput ==
    \/ \E u \in {1, 2}, form \in InputTxForms :
           add_transaction(u, form, TRUE, FALSE)
    \/ \E u \in {2, 3}, form \in InputForms : reports(u, form)

SpecInput == Init /\ [][NextInput]_vars

(* The rows of one user in the store *)
OwnStore(u) ==
    [i \in {k \in DOMAIN transactions : transactions[k].user_id = u}
       |-> transactions[i]]

(* The rows of a table in the date range, category and type of a report    *)
(* request; the user filter of the request is not read.                    *)
Matching(table, form) ==
    {i \in DOMAIN table :
        /\ table[i].transaction_date >= form.start_date
        /\ table[i].transaction_date <= form.end_date
        /\ (form.category_id = 0 \/ table[i].category_id = form.category_id)
        /\ (form.type = "" \/ table[i].type = form.type)}

(* C30: the report of a requester without manage_users is a function of    *)
(* the requester's own transactions and of the date range, category and    *)
(* type asked for: its rows are the matching rows of the requester's own   *)
(* part of the store, each as stored and each once, whatever the user      *)
(* filter of the request is (0 for all users, or a user's id); so two      *)
(* stores with the same own part give the same rows.                       *)
C30_ReportFromOwnTransactions ==
    [][ resp'.op = "reports" /\ resp'.body # <<>>
        => \A form \in InputForms :
             ( /\ reports(resp'.user, form)
               /\ ~has_permission(resp'.user, "manage_users") )
             => LET u == resp'.user
                    rows == resp'.body[1].rows
                IN /\ {rows[k].id : k \in DOMAIN rows}
                        = Matching(OwnStore(u), form)
                   /\ Len(rows) = Cardinality(Matching(OwnStore(u), form))
                   /\ \A k \in DOMAIN rows :
                          rows[k].row = OwnStore(u)[rows[k].id] ]_vars

(* The Manager got a report with rows, and each request with the same date *)
(* range and type and any user filter gives this report, while the store   *)
(* holds a transaction of the administrator of the same date and type as a *)
(* row of it.                                                              *)
C30_ReportBesideOthersTransactions ==
    /\ resp.op = "reports"
    /\ resp.status = 200
    /\ resp.body # <<>>
    /\ ~has_permission(resp.user, "manage_users")
    /\ resp.body[1].rows # <<>>
    /\ \E i \in DOMAIN transactions :
           /\ transactions[i].user_id # resp.user
           /\ transactions[i].transaction_date
                = resp.body[1].rows[1].row.transaction_date
           /\ transactions[i].type = resp.body[1].rows[1].row.type

-----------------------------------------------------------------------------
(* The overlap specification: the administrator and the Manager add       *)
(* transactions and edit the first one, the requests of one overlapping    *)
(* those of the other.                                                     *)

OverlapTxForms ==
    { TxForm("expense", 500, <<"a">>, NullText, <<>>, DaysPerMonth + 1, 1,
             <<"a", " a", "b">>, NoFile) }

OverlapEditForms ==
    { TxForm("expense", 700, <<"a">>, NullText, <<>>, DaysPerMonth + 1, 1,
             <<"a">>, NoFile),
      TxForm("expense", 500, <<"b">>, NullText, <<>>, DaysPerMonth + 1, 1,
             <<"a">>, NoFile),
      TxForm("expense", 500, <<"a">>, NullText, <<>>, DaysPerMonth + 1, 1,
             <<"c">>, NoFile) }

NextOverlap ==
    \/ \E u \in Owners, form \in OverlapTxForms : add_transaction_lookup(u, form)
    \/ \E r \in inflight : add_transaction_insert(r, TRUE, FALSE)
    \/ \E u \in Owners, form \in OverlapEditForms :
           edit_transaction_load(u, 1, form)
    \/ \E r \in inflight, stale_raises \in BOOLEAN :
           edit_transaction_save(r, stale_raises, TRUE, FALSE)

SpecOverlap == Init /\ [][NextOverlap]_vars

(* C22: no two Tag records share a name, whatever add_transaction and      *)
(* edit_transaction requests ran and however they overlapped; a name that  *)
(* is stored, or that comes twice in one list, is not stored again.        *)
C22_TagNamesUnique ==
    \A i, j \in DOMAIN tags : tags[i] = tags[j] => i = j

(* A request that had not found a tag name was refused because an          *)
(* overlapping request stored the name first; the name is stored once.     *)
C22_SecondCreationRefused ==
    /\ resp.op \in {"add_transaction", "edit_transaction"}
    /\ resp.status = 500
    /\ resp.error = "IntegrityError"
    /\ Len(tags) = 2

(* C24: an edit_transaction that commits after another edit of the same   *)
(* transaction committed since it loaded the row is not refused, and the   *)
(* stored columns and tag names of the transaction are then the ones it    *)
(* submitted.                                                              *)
C24_LastCommitWins ==
    [][ \A r \in inflight, stale_raises \in BOOLEAN :
           ( /\ r.op = "edit_transaction"
             /\ r.target \in DOMAIN transactions
             /\ transactions[r.target] # r.seen
             /\ edit_transaction_save(r, stale_raises, TRUE, FALSE) )
           => /\ resp'.status = 302
              /\ \A c \in FormColumns :
                     transactions'[r.target][c] = r.form[c]
              /\ {tags'[t] : t \in transactions'[r.target].tags}
                   = SeqToSet(parse_tags(r.form.tags)) ]_vars

====
